---- MODULE Spec2Model ----
(***************************************************************************)
(* E-commerce analytics over a document store: attribute extraction from   *)
(* Romanian catalog text, product upsert, supplier incident logging and    *)
(* the damage-rate / coverage aggregations.                                *)
(*                                                                         *)
(* Text is a sequence of characters; a character is a one-element string   *)
(* (the Romanian letters with diacritics are spelled "a_breve", "s_comma", *)
(* "t_comma", and their capitals "A_breve", "S_comma", "T_comma").         *)
(* Python's None is the empty tuple and an Optional value x is <<x>>.      *)
(***************************************************************************)
EXTENDS Integers, Sequences, FiniteSets, TLC

VARIABLES
    name,          \* extract_attributes: the `name` argument
    description,   \* extract_attributes: the `description` argument (Optional)
    attributes,    \* the dict returned by the last extract_attributes call
    pc,            \* "input" before the call, "extracted" after it
    incidents,     \* the supplier_incidents index: document id -> document
    products,      \* the products index: document id -> document
    sku_daily_stats, \* the sku_daily_stats index: document id -> document
    indices,       \* the indices that exist: index name -> name of its mapping
    response       \* what the last service operation returned or raised

vars == <<name, description, attributes, pc, incidents, products, sku_daily_stats,
          indices, response>>

extractVars == <<name, description, attributes, pc>>

storeVars == <<incidents, products, sku_daily_stats, indices, response>>

setupVars == <<sku_daily_stats, indices>>

(***************************************************************************)
(* Characters and strings                                                  *)
(***************************************************************************)
None == <<>>

Some(x) == <<x>>

Digits == {"0", "1", "2", "3", "4", "5", "6", "7", "8", "9"}

DigitSeq == <<"0", "1", "2", "3", "4", "5", "6", "7", "8", "9">>

LowerLetters ==
    <<"a", "b", "c", "d", "e", "f", "g", "h", "i", "j", "k", "l", "m",
      "n", "o", "p", "q", "r", "s", "t", "u", "v", "w", "x", "y", "z",
      "a_breve", "s_comma", "t_comma", "a_circ", "i_circ">>

UpperLetters ==
    <<"A", "B", "C", "D", "E", "F", "G", "H", "I", "J", "K", "L", "M",
      "N", "O", "P", "Q", "R", "S", "T", "U", "V", "W", "X", "Y", "Z",
      "A_breve", "S_comma", "T_comma", "A_circ", "I_circ">>

\* [A-Z] of the shade pattern: ASCII capitals only
AsciiUpper ==
    {"A", "B", "C", "D", "E", "F", "G", "H", "I", "J", "K", "L", "M",
     "N", "O", "P", "Q", "R", "S", "T", "U", "V", "W", "X", "Y", "Z"}

\* [0-9a-fA-F]
HexChars == Digits \cup {"a", "b", "c", "d", "e", "f", "A", "B", "C", "D", "E", "F"}

\* \s
Space == {" ", "\t", "\n"}

Range(s) == {s[i] : i \in DOMAIN s}

\* \w : letters, digits and the underscore
WordChars == Range(LowerLetters) \cup Range(UpperLetters) \cup Digits \cup {"_"}

\* [\w-]
WordDash == WordChars \cup {"-"}

IndexOf(s, c) == CHOOSE i \in DOMAIN s : s[i] = c

\* str.lower() on one character
LowerChar(c) == IF c \in Range(UpperLetters) THEN LowerLetters[IndexOf(UpperLetters, c)] ELSE c

\* str.upper() on one character
UpperChar(c) == IF c \in Range(LowerLetters) THEN UpperLetters[IndexOf(LowerLetters, c)] ELSE c

Lower(t) == [i \in DOMAIN t |-> LowerChar(t[i])]

Upper(t) == [i \in DOMAIN t |-> UpperChar(t[i])]

\* the character at position i, or "" (a member of no character class) outside the text
At(t, i) == IF i \in DOMAIN t THEN t[i] ELSE ""

\* n characters from position i all belong to class S
AllIn(t, i, n, S) == \A j \in 0 .. (n - 1) : At(t, i + j) \in S

\* \b at the gap in front of position p
Boundary(t, p) == (At(t, p - 1) \in WordChars) # (At(t, p) \in WordChars)

\* the literal lit (given lower-cased) at position i, ignoring case
LiteralAt(t, i, lit) == \A j \in DOMAIN lit : LowerChar(At(t, i + j - 1)) = lit[j]

\* `needle in t`
Contains(t, needle) ==
    \E i \in 1 .. (Len(t) - Len(needle) + 1) :
        \A j \in DOMAIN needle : t[i + j - 1] = needle[j]

SetMin(S) == CHOOSE x \in S : \A y \in S : x <= y

SetMax(S) == CHOOSE x \in S : \A y \in S : x >= y

\* length of the run of whitespace that starts at position p
SpaceRun(t, p) ==
    LET ends == {n \in 0 .. (Len(t) - p + 1) : AllIn(t, p, n, Space)}
    IN  SetMax(ends)

\* str.strip()
Strip(t) ==
    LET keep == {i \in DOMAIN t : t[i] \notin Space}
    IN  IF keep = {} THEN <<>> ELSE SubSeq(t, SetMin(keep), SetMax(keep))

DigitValue(c) == IndexOf(DigitSeq, c) - 1

\* float(digits): the number a string of decimal digits denotes
RECURSIVE ParseFloat(_)
ParseFloat(ds) ==
    IF ds = <<>> THEN 0
    ELSE 10 * ParseFloat(SubSeq(ds, 1, Len(ds) - 1)) + DigitValue(ds[Len(ds)])

(***************************************************************************)
(* Pattern library                                                         *)
(***************************************************************************)
\* FINISH_KEYWORDS: src/attribute_extraction.py lines 19-27
FINISH_KEYWORDS ==
    << <<"m", "a", "t">>,
       <<"m", "a", "t", "t", "e">>,
       <<"g", "l", "o", "s", "s">>,
       <<"l", "u", "c", "i", "o", "s">>,
       <<"g", "l", "i", "t", "t", "e", "r">>,
       <<"s", "h", "i", "m", "m", "e", "r">>,
       <<"r", "e", "f", "l", "e", "c", "t", "i", "v">> >>

\* CURING_KEYWORDS: src/attribute_extraction.py lines 28-33
CURING_KEYWORDS ==
    << <<"u", "v", "/", "l", "e", "d">>,
       <<"u", "v", " ", "l", "e", "d">>,
       <<"u", "v">>,
       <<"l", "e", "d">> >>

\* LIQUID_TYPES: src/attribute_extraction.py lines 34-41
LIQUID_TYPES ==
    << <<"c", "l", "e", "a", "n", "e", "r">>,
       <<"r", "e", "m", "o", "v", "e", "r">>,
       <<"a", "c", "e", "t", "o", "n">>,
       <<"s", "l", "i", "p", " ", "s", "o", "l", "u", "t", "i", "o", "n">>,
       <<"d", "e", "g", "r", "e", "s", "a", "n", "t">>,
       <<"p", "r", "i", "m", "e", "r">> >>

\* SCENT_KEYWORDS: src/attribute_extraction.py lines 42-50
SCENT_KEYWORDS ==
    << <<"l", "a", "v", "a", "n", "d", "a">>,
       <<"l", "a", "v", "a", "n", "d", "a_breve">>,
       <<"c", "a", "p", "s", "u", "n", "i">>,
       <<"c", "a_breve", "p", "s_comma", "u", "n", "i">>,
       <<"v", "a", "n", "i", "l", "i", "e">>,
       <<"c", "o", "c", "o", "s">>,
       <<"t", "r", "a", "n", "d", "a", "f", "i", "r">> >>

\* MATERIAL_KEYWORDS: src/attribute_extraction.py lines 51-58
MATERIAL_KEYWORDS ==
    << <<"i", "n", "o", "x">>,
       <<"o", "t", "e", "l">>,
       <<"o", "t_comma", "e", "l">>,
       <<"c", "a", "r", "b", "o", "n">>,
       <<"a", "b", "s">>,
       <<"p", "l", "a", "s", "t", "i", "c">> >>

\* SHAPE_KEYWORDS: src/attribute_extraction.py lines 59-67
SHAPE_KEYWORDS ==
    << <<"o", "v", "a", "l">>,
       <<"b", "a", "n", "a", "n", "a_breve">>,
       <<"b", "a", "n", "a", "n", "a">>,
       <<"d", "r", "e", "p", "t">>,
       <<"s", "t", "r", "a", "i", "g", "h", "t">>,
       <<"h", "a", "l", "f", "-", "m", "o", "o", "n">>,
       <<"s", "e", "m", "i", "l", "u", "n", "a_breve">> >>

\* COLOR_KEYWORDS: src/attribute_extraction.py lines 68-82
COLOR_KEYWORDS ==
    << <<"a", "l", "b">>,
       <<"n", "e", "g", "r", "u">>,
       <<"r", "o", "s", "u">>,
       <<"r", "o", "s_comma", "u">>,
       <<"r", "o", "z">>,
       <<"n", "u", "d", "e">>,
       <<"a", "l", "b", "a", "s", "t", "r", "u">>,
       <<"v", "e", "r", "d", "e">>,
       <<"m", "o", "v">>,
       <<"g", "a", "l", "b", "e", "n">>,
       <<"p", "o", "r", "t", "o", "c", "a", "l", "i", "u">>,
       <<"a", "u", "r", "i", "u">>,
       <<"a", "r", "g", "i", "n", "t", "i", "u">> >>

(***************************************************************************)
(* Regular expressions.  A pattern is modelled by the alternatives the     *)
(* backtracking matcher tries at one start position, in the order it tries *)
(* them (greedy quantifiers longest first, lazy ones shortest first), and  *)
(* re.search takes the leftmost start position that has a match.           *)
(***************************************************************************)
\* index of the first alternative that fits, given the indexes of those that
\* fit; 0 when none does
FirstTry(fitting) == IF fitting = {} THEN 0 ELSE SetMin(fitting)

\* pattern.search(text) scans from the left: the leftmost of the start positions
\* that have a match, 0 when there is none
re_search(hits) == IF hits = {} THEN 0 ELSE SetMin(hits)

VolumeTries_TwoDigits == << <<2, 1>>, <<2, 0>>, <<1, 1>>, <<1, 0>> >>

\* (\d{1,3})\s?(ml)\b, IGNORECASE: <<digits, blanks>> in backtracking order
VolumeTries == << <<3, 1>>, <<3, 0>>, <<2, 1>>, <<2, 0>>, <<1, 1>>, <<1, 0>> >>

VolumeFits(t, i, try) ==
    /\ AllIn(t, i, try[1], Digits)
    /\ AllIn(t, i + try[1], try[2], Space)
    /\ LiteralAt(t, i + try[1] + try[2], <<"m", "l">>)
    /\ Boundary(t, i + try[1] + try[2] + 2)

VOLUME_PATTERN(t, i) ==
    LET j == FirstTry({k \in DOMAIN VolumeTries : VolumeFits(t, i, VolumeTries[k])})
    IN  IF j = 0 THEN None
        ELSE Some([g0 |-> SubSeq(t, i, i + VolumeTries[j][1] + VolumeTries[j][2] + 1),
                   g1 |-> SubSeq(t, i, i + VolumeTries[j][1] - 1)])

\* VOLUME_PATTERN.search(t)
VolumeSearch(t) ==
    LET first == re_search({i \in 1 .. Len(t) : VOLUME_PATTERN(t, i) # None})
    IN  IF first = 0 THEN None ELSE VOLUME_PATTERN(t, first)

\* (\d{2,4})\s?(mm)\b, IGNORECASE
LengthTries == << <<4, 1>>, <<4, 0>>, <<3, 1>>, <<3, 0>>, <<2, 1>>, <<2, 0>> >>

LengthFits(t, i, try) ==
    /\ AllIn(t, i, try[1], Digits)
    /\ AllIn(t, i + try[1], try[2], Space)
    /\ LiteralAt(t, i + try[1] + try[2], <<"m", "m">>)
    /\ Boundary(t, i + try[1] + try[2] + 2)

LENGTH_PATTERN(t, i) ==
    LET j == FirstTry({k \in DOMAIN LengthTries : LengthFits(t, i, LengthTries[k])})
    IN  IF j = 0 THEN None
        ELSE Some([g0 |-> SubSeq(t, i, i + LengthTries[j][1] + LengthTries[j][2] + 1),
                   g1 |-> SubSeq(t, i, i + LengthTries[j][1] - 1)])

\* LENGTH_PATTERN.search(t)
LengthSearch(t) ==
    LET first == re_search({i \in 1 .. Len(t) : LENGTH_PATTERN(t, i) # None})
    IN  IF first = 0 THEN None ELSE LENGTH_PATTERN(t, first)

\* \b(\d{2,3}/\d{2,3})\b
GritTries == << <<3, 3>>, <<3, 2>>, <<2, 3>>, <<2, 2>> >>

GritFits(t, i, try) ==
    /\ Boundary(t, i)
    /\ AllIn(t, i, try[1], Digits)
    /\ At(t, i + try[1]) = "/"
    /\ AllIn(t, i + try[1] + 1, try[2], Digits)
    /\ Boundary(t, i + try[1] + 1 + try[2])

GRIT_PATTERN(t, i) ==
    LET j == FirstTry({k \in DOMAIN GritTries : GritFits(t, i, GritTries[k])})
    IN  IF j = 0 THEN None
        ELSE LET m == SubSeq(t, i, i + GritTries[j][1] + GritTries[j][2])
             IN  Some([g0 |-> m, g1 |-> m])

\* GRIT_PATTERN.search(t)
GritSearch(t) ==
    LET first == re_search({i \in 1 .. Len(t) : GRIT_PATTERN(t, i) # None})
    IN  IF first = 0 THEN None ELSE GRIT_PATTERN(t, first)

\* (#[0-9a-fA-F]{2,4}|[A-Z]{1,2}\d{2,3})\b
\* <<1, hex digits, 0>> for the first alternative, <<2, capitals, digits>> for the second
ShadeTries ==
    << <<1, 4, 0>>, <<1, 3, 0>>, <<1, 2, 0>>,
       <<2, 2, 3>>, <<2, 2, 2>>, <<2, 1, 3>>, <<2, 1, 2>> >>

ShadeLen(try) == IF try[1] = 1 THEN 1 + try[2] ELSE try[2] + try[3]

ShadeFits(t, i, try) ==
    /\ IF try[1] = 1
       THEN At(t, i) = "#" /\ AllIn(t, i + 1, try[2], HexChars)
       ELSE AllIn(t, i, try[2], AsciiUpper) /\ AllIn(t, i + try[2], try[3], Digits)
    /\ Boundary(t, i + ShadeLen(try))

SHADE_PATTERN(t, i) ==
    LET j == FirstTry({k \in DOMAIN ShadeTries : ShadeFits(t, i, ShadeTries[k])})
    IN  IF j = 0 THEN None
        ELSE LET m == SubSeq(t, i, i + ShadeLen(ShadeTries[j]) - 1)
             IN  Some([g0 |-> m, g1 |-> m])

\* SHADE_PATTERN.search(t)
ShadeSearch(t) ==
    LET first == re_search({i \in 1 .. Len(t) : SHADE_PATTERN(t, i) # None})
    IN  IF first = 0 THEN None ELSE SHADE_PATTERN(t, first)

StrengthTries_TwoDigits == << <<2, 1>>, <<2, 0>> >>

\* (\d{2,3})\s?%
StrengthTries == << <<3, 1>>, <<3, 0>>, <<2, 1>>, <<2, 0>> >>

StrengthFits(t, i, try) ==
    /\ AllIn(t, i, try[1], Digits)
    /\ AllIn(t, i + try[1], try[2], Space)
    /\ At(t, i + try[1] + try[2]) = "%"

STRENGTH_PATTERN(t, i) ==
    LET j == FirstTry({k \in DOMAIN StrengthTries : StrengthFits(t, i, StrengthTries[k])})
    IN  IF j = 0 THEN None
        ELSE Some([g0 |-> SubSeq(t, i, i + StrengthTries[j][1] + StrengthTries[j][2]),
                   g1 |-> SubSeq(t, i, i + StrengthTries[j][1] - 1)])

\* STRENGTH_PATTERN.search(t)
StrengthSearch(t) ==
    LET first == re_search({i \in 1 .. Len(t) : STRENGTH_PATTERN(t, i) # None})
    IN  IF first = 0 THEN None ELSE STRENGTH_PATTERN(t, first)

\* colect(ia|iei)\s+([\w-]{3,30}?)(?:\s+\d|\s*$), IGNORECASE
\* the tail (?:\s+\d|\s*$) at position q
CollectionTail(t, q) ==
    LET r == SpaceRun(t, q)
    IN  \/ r >= 1 /\ At(t, q + r) \in Digits
        \/ q + r = Len(t) + 1

\* the two marker alternatives, in the order of the alternation
CollectionMarkers ==
    << <<"c", "o", "l", "e", "c", "t", "i", "a">>,
       <<"c", "o", "l", "e", "c", "t", "i", "e", "i">> >>

\* \s+ takes the whole run of blanks (a shorter run leaves a blank in front of
\* [\w-], which cannot match it); the lazy {3,30}? takes the shortest fitting name
CollectionNameAt(t, p) ==
    LET lens == {n \in 3 .. 30 : AllIn(t, p, n, WordDash) /\ CollectionTail(t, p + n)}
    IN  IF lens = {} THEN None ELSE Some(SubSeq(t, p, p + SetMin(lens) - 1))

CollectionFits(t, i, marker) ==
    /\ LiteralAt(t, i, marker)
    /\ SpaceRun(t, i + Len(marker)) >= 1
    /\ CollectionNameAt(t, i + Len(marker) + SpaceRun(t, i + Len(marker))) # None

COLLECTION_PATTERN(t, i) ==
    LET j == FirstTry({k \in DOMAIN CollectionMarkers :
                              CollectionFits(t, i, CollectionMarkers[k])})
    IN  IF j = 0 THEN None
        ELSE LET p == i + Len(CollectionMarkers[j])
                 g == CollectionNameAt(t, p + SpaceRun(t, p))[1]
             IN  Some([g0 |-> SubSeq(t, i, p + SpaceRun(t, p) + Len(g) - 1),
                       g1 |-> SubSeq(t, i + 6, p - 1),
                       g2 |-> g])

\* COLLECTION_PATTERN.search(t)
CollectionSearch(t) ==
    LET first == re_search({i \in 1 .. Len(t) : COLLECTION_PATTERN(t, i) # None})
    IN  IF first = 0 THEN None ELSE COLLECTION_PATTERN(t, first)

(***************************************************************************)
(* Attribute extractor                                                     *)
(***************************************************************************)
\* match.group(1) if match else None
_first_match(match) == IF match # None THEN Some(match[1].g1) ELSE None

\* position of the first occurrence of needle in t (0 when there is none)
FirstOccurrence(t, needle) ==
    LET at == {i \in 1 .. (Len(t) - Len(needle) + 1) :
                  \A j \in DOMAIN needle : t[i + j - 1] = needle[j]}
    IN  IF at = {} THEN 0 ELSE SetMin(at)

_first_keyword_Leftmost(text, keywords) ==
    LET found == {j \in DOMAIN keywords : Contains(text, keywords[j])}
        first == CHOOSE j \in found : \A o \in found :
                     \/ FirstOccurrence(text, keywords[j]) < FirstOccurrence(text, keywords[o])
                     \/ /\ FirstOccurrence(text, keywords[j]) = FirstOccurrence(text, keywords[o])
                        /\ j <= o
    IN  IF found = {} THEN None ELSE Some(keywords[first])

_first_keyword_LastInList(text, keywords) ==
    LET found == {j \in DOMAIN keywords : Contains(text, keywords[j])}
    IN  IF found = {} THEN None ELSE Some(keywords[SetMax(found)])

\* the first keyword, in list order, that occurs in the text
_first_keyword(text, keywords) ==
    LET found == {j \in DOMAIN keywords : Contains(text, keywords[j])}
    IN  IF found = {} THEN None ELSE Some(keywords[SetMin(found)])

Truthy_ZeroIsFalse(opt) == opt # None /\ opt[1] # <<>> /\ Range(opt[1]) # {"0"}

\* truth value of an Optional string: None and "" are false
Truthy(opt) == opt # None /\ opt[1] # <<>>

\* curing.replace(" ", "")
RECURSIVE RemoveSpaces(_)
RemoveSpaces(t) ==
    IF t = <<>> THEN <<>>
    ELSE IF Head(t) = " " THEN RemoveSpaces(Tail(t))
    ELSE <<Head(t)>> \o RemoveSpaces(Tail(t))

\* " ".join(filter(None, [name or "", description or ""]))
Haystack(nm, desc) ==
    LET d == IF desc = None THEN <<>> ELSE desc[1]
    IN  IF nm = <<>> THEN d
        ELSE IF d = <<>> THEN nm
        ELSE nm \o <<" ">> \o d

\* a dict: a function from its keys; {} is the empty function
EmptyDict == <<>>

\* the entry key: value when cond holds, nothing otherwise
Entry(cond, key, value) == IF cond THEN key :> value ELSE EmptyDict

\* dict.update: the entries of `other` replace those of `d`
Update(d, other) == other @@ d

extract_attributes(nm, desc) ==
    LET haystack == Haystack(nm, desc)
        haystack_lower == Lower(haystack)
        volume == _first_match(VolumeSearch(haystack))
        grit == _first_match(GritSearch(haystack))
        shade_match == ShadeSearch(haystack)
        finish == _first_keyword(haystack_lower, FINISH_KEYWORDS)
        curing == _first_keyword(haystack_lower, CURING_KEYWORDS)
        liquid_type == _first_keyword(haystack_lower, LIQUID_TYPES)
        scent == _first_keyword(haystack_lower, SCENT_KEYWORDS)
        strength == _first_match(StrengthSearch(haystack))
        length == _first_match(LengthSearch(haystack))
        material == _first_keyword(haystack_lower, MATERIAL_KEYWORDS)
        shape == _first_keyword(haystack_lower, SHAPE_KEYWORDS)
        color == _first_keyword(haystack_lower, COLOR_KEYWORDS)
        collection_match == CollectionSearch(haystack)
    IN  Entry(Truthy(volume), "attr_volume_ml", ParseFloat(volume[1]))
        @@ Entry(Truthy(grit), "attr_grit", grit[1])
        @@ Entry(shade_match # None, "attr_shade_code", Upper(shade_match[1].g0))
        @@ Entry(Truthy(finish), "attr_finish", finish[1])
        @@ Entry(Truthy(curing), "attr_curing_type", Upper(RemoveSpaces(curing[1])))
        @@ Entry(Truthy(liquid_type), "attr_liquid_type", liquid_type[1])
        @@ Entry(Truthy(scent), "attr_scent", scent[1])
        @@ Entry(Truthy(strength), "attr_strength_percent", ParseFloat(strength[1]))
        @@ Entry(Truthy(length), "attr_length_mm", ParseFloat(length[1]))
        @@ Entry(Truthy(material), "attr_material", material[1])
        @@ Entry(Truthy(shape), "attr_shape", shape[1])
        @@ Entry(Truthy(color), "attr_color_name", color[1])
        @@ Entry(collection_match # None, "attr_collection", Strip(collection_match[1].g2))

(***************************************************************************)
(* Extraction runs: the inputs are concatenations of catalog fragments.    *)
(***************************************************************************)
MaxFrags == 2

NameFragments ==
    << <<"5", "m", "l">>,
       <<"1", "0", " ", "m", "l">>,
       <<" ">>,
       <<"x">>,
       <<"1">>,
       <<"9", "9", "%">>,
       <<"5", "0", " ", "%">>,
       <<"D", "e", "g", "r", "e", "s", "a", "n", "t">>,
       <<"a", "c", "e", "t", "o", "n", "a_breve">>,
       <<"L", "u", "c", "i", "o", "s">>,
       <<"0">>,
       <<"m", "l">> >>

DescriptionFragments ==
    << <<"g", "l", "i", "t", "t", "e", "r", " ", "U", "V", " ", "L", "E", "D">>,
       <<"0", "1", "5", "M", "L">>,
       <<"2", "0", "0", "%">>,
       <<"C", "o", "l", "e", "c", "t", "i", "e", "i", " ", "G", "l", "a", "m", " ",
         "1", "5", " ", "m", "l">>,
       <<"c", "o", "l", "e", "c", "t", "i", "e", "i", " ", "R", "e", "d", " ",
         "H", "o", "t">>,
       <<"C", "o", "l", "e", "c", "t_comma", "i", "a", " ", "G", "l", "a", "m">> >>

RECURSIVE Flatten(_)
Flatten(parts) == IF parts = <<>> THEN <<>> ELSE Head(parts) \o Flatten(Tail(parts))

\* every text made of at most n fragments of the pool
Texts(pool, n) ==
    {Flatten(parts) : parts \in UNION {[1 .. k -> Range(pool)] : k \in 0 .. n}}

ExtractIdle ==
    /\ name = <<>>
    /\ description = None
    /\ attributes = EmptyDict
    /\ pc = "idle"

ExtractInputs ==
    /\ name \in Texts(NameFragments, MaxFrags)
    /\ description \in {None} \cup {Some(d) : d \in Texts(DescriptionFragments, 1)}
    /\ attributes = EmptyDict
    /\ pc = "input"

ExtractCall ==
    /\ pc = "input"
    /\ attributes' = extract_attributes(name, description)
    /\ pc' = "extracted"
    /\ UNCHANGED <<name, description>>

(***************************************************************************)
(* es_setup.py and elastic_mappings.ensure_index                           *)
(***************************************************************************)
\* settings.indices: the names of the three indices, each with the mapping
\* es_setup creates it with
IndexMappings ==
    ("products" :> "PRODUCTS_MAPPING")
    @@ ("sku_daily_stats" :> "SKU_DAILY_STATS_MAPPING")
    @@ ("supplier_incidents" :> "SUPPLIER_INCIDENTS_MAPPING")

\* the order in which create_all_indices goes through them
SetupOrder == <<"products", "sku_daily_stats", "supplier_incidents">>

\* a run of requests to the store is the indices it has led to, the calls made
\* and the error raised; Called adds a call to a run
Called(run, method, index_name) ==
    [run EXCEPT !.calls = Append(@, <<method, index_name>>)]

\* client.indices.create: refused for an index that exists
IndicesCreate(run, index_name, body) ==
    IF index_name \in DOMAIN run.indices
    THEN [Called(run, "create", index_name) EXCEPT !.raised = "BadRequestError"]
    ELSE [Called(run, "create", index_name) EXCEPT !.indices = @ @@ (index_name :> body)]

\* client.indices.put_mapping with the properties the index has already
IndicesPutMapping(run, index_name, body) == Called(run, "put_mapping", index_name)

ensure_index_AlwaysCreate(run, index_name, body) ==
    IndicesCreate(Called(run, "exists", index_name), index_name, body)

ensure_index(run, index_name, body) ==
    IF index_name \notin DOMAIN run.indices
    THEN IndicesCreate(Called(run, "exists", index_name), index_name, body)
    ELSE IndicesPutMapping(Called(run, "exists", index_name), index_name, body)

\* es_setup.create_index: both branches end in ensure_index, they differ in what
\* they log
create_index(run, index_name, body) ==
    IF index_name \in DOMAIN run.indices
    THEN ensure_index(Called(run, "exists", index_name), index_name, body)
    ELSE ensure_index(Called(run, "exists", index_name), index_name, body)

\* a run that starts on the indices `existing`; when the store cannot be
\* reached its first request raises `failure`
StartRun(existing, failure) ==
    [indices |-> existing, calls |-> <<>>,
     raised |-> IF failure = None THEN "" ELSE failure[1]]

RECURSIVE CreateEach(_, _)
\* create_products_index, create_sku_daily_stats_index and
\* create_supplier_incidents_index one after the other, up to the first error
CreateEach(run, i) ==
    IF i > Len(SetupOrder) \/ run.raised # "" THEN run
    ELSE CreateEach(create_index(run, SetupOrder[i], IndexMappings[SetupOrder[i]]), i + 1)

\* create_all_indices(): get_client raises when client.info() fails
create_all_indices(existing, failure) == CreateEach(StartRun(existing, failure), 1)

\* create_products_index(client) and its two siblings, by index name
CreateIndex(index_name, failure) ==
    /\ LET run == IF failure = None
                  THEN create_index(StartRun(indices, failure), index_name,
                                    IndexMappings[index_name])
                  ELSE Called(StartRun(indices, failure), "exists", index_name)
       IN  /\ indices' = run.indices
           /\ response' = [op |-> "create_index", index_name |-> index_name,
                           failure |-> failure, existing |-> DOMAIN indices,
                           calls |-> run.calls, raised |-> run.raised]
    /\ UNCHANGED <<incidents, products, sku_daily_stats, extractVars>>

CreateAllIndices(failure) ==
    /\ LET run == create_all_indices(indices, failure)
       IN  /\ indices' = run.indices
           /\ response' = [op |-> "create_all_indices", failure |-> failure,
                           existing |-> DOMAIN indices,
                           calls |-> run.calls, raised |-> run.raised]
    /\ UNCHANGED <<incidents, products, sku_daily_stats, extractVars>>

(***************************************************************************)
(* The document store, as the incident code uses it                        *)
(***************************************************************************)
\* client.index(index, id, document): the document stored under id is replaced
Index(store, id, document) == (id :> document) @@ store

RECURSIVE SumField(_, _, _)
\* the sum metric of a field over the documents `ids`
SumField(store, ids, field) ==
    IF ids = {} THEN 0
    ELSE LET id == CHOOSE x \in ids : TRUE
         IN  store[id][field] + SumField(store, ids \ {id}, field)

RECURSIVE Gcd(_, _)
Gcd(a, b) == IF b = 0 THEN a ELSE Gcd(b, a % b)

\* the quotient n / d (d > 0, n >= 0) as a fraction in lowest terms
Fraction(n, d) == [num |-> n \div Gcd(n, d), den |-> d \div Gcd(n, d)]

Zero == [num |-> 0, den |-> 1]

\* the bucket script  params.total == 0 ? 0 : params.damaged / params.total
DamageRateScript(total, damaged) == IF total = 0 THEN Zero ELSE Fraction(damaged, total)

\* One bucket with its sub-aggregations total_qty, damaged_qty and damage_rate.
\* The request names no gap_policy, so bucket_script runs under the default
\* "skip": a bucket without documents gets no damage_rate entry at all.
MetricBucket(store, key, ids) ==
    [key |-> key,
     doc_count |-> Cardinality(ids),
     total_qty |-> SumField(store, ids, "qty_total_in_shipment"),
     damaged_qty |-> SumField(store, ids, "qty_damaged"),
     damage_rate |->
         IF ids = {} THEN None
         ELSE Some(DamageRateScript(SumField(store, ids, "qty_total_in_shipment"),
                                    SumField(store, ids, "qty_damaged")))]

\* documents among `ids` whose field holds key
WithTerm(store, ids, field, key) == {id \in ids : store[id][field] = key}

\* the function f with every value computed
Table(f) == f @@ <<>>

\* the elements of keys, each at the place its rank names
Arrange(keys, rank) ==
    Table([i \in 1 .. Cardinality(keys) |-> CHOOSE k \in keys : rank[k] = i])

\* the keys that count documents, largest count first, equal counts by place
OrderCounted(keys, counts, place) ==
    Arrange(keys, Table([k \in keys |->
                            1 + Cardinality({o \in keys :
                                    \/ counts[o] > counts[k]
                                    \/ counts[o] = counts[k] /\ place[o] < place[k]})]))

\* the keys of a terms aggregation, largest bucket first, equal counts by key
\* (`order` lists the possible keys in ascending order)
OrderTerms(store, ids, field, order) ==
    OrderCounted({store[id][field] : id \in ids},
                 Table([k \in {store[id][field] : id \in ids} |->
                           Cardinality(WithTerm(store, ids, field, k))]),
                 Table([k \in {store[id][field] : id \in ids} |-> IndexOf(order, k)]))

\* the first `size` elements
Take(s, size) == SubSeq(s, 1, IF Len(s) < size THEN Len(s) ELSE size)

\* {"terms": {"field": field, "size": size}}: <<key, documents>> per bucket
TermsBuckets(store, ids, field, order, size) ==
    LET keys == Take(OrderTerms(store, ids, field, order), size)
    IN  Table([i \in DOMAIN keys |-> <<keys[i], WithTerm(store, ids, field, keys[i])>>])

\* two-digit and four-digit decimal fields of a date
TwoDigits(n) == <<DigitSeq[(n \div 10) + 1], DigitSeq[(n % 10) + 1]>>

FourDigits(n) == TwoDigits(n \div 100) \o TwoDigits(n % 100)

\* datetime.isoformat() of a datetime <<year, month, day>> at midnight
isoformat(dt) ==
    FourDigits(dt[1]) \o <<"-">> \o TwoDigits(dt[2]) \o <<"-">> \o TwoDigits(dt[3])
    \o <<"T", "0", "0", ":", "0", "0", ":", "0", "0">>

\* the calendar month an ISO date-time falls in, counted in months
MonthOf(iso) == 12 * ParseFloat(SubSeq(iso, 1, 4)) + ParseFloat(SubSeq(iso, 6, 7)) - 1

\* key_as_string of a month bucket: the first instant of the month
MonthKeyAsString(month) ==
    FourDigits(month \div 12) \o <<"-">> \o TwoDigits((month % 12) + 1)
    \o <<"-", "0", "1", "T", "0", "0", ":", "0", "0", ":", "0", "0", ".", "0", "0", "0", "Z">>

\* {"date_histogram": {"field": field, "calendar_interval": "month"}}: one bucket
\* for every month from the first to the last month that has a document
\* (min_doc_count is left at its default 0), in chronological order
MonthBuckets(store, ids, field) ==
    LET months == {MonthOf(store[id][field]) : id \in ids}
        first == SetMin(months)
        last == SetMax(months)
    IN  IF ids = {} THEN <<>>
        ELSE [i \in 1 .. (last - first + 1) |->
                 <<first + i - 1,
                   {id \in ids : MonthOf(store[id][field]) = first + i - 1}>>]

(***************************************************************************)
(* supplier_incidents.py                                                   *)
(***************************************************************************)
SupplierIds == <<"SUP-1", "SUP-2">>

ProductTypes == <<"nail_polish", "tool">>

TermsSizeSuppliers == 50

TermsSizeProductTypes == 10

Return(rows) == [raised |-> "", rows |-> rows]

Raise(error) == [raised |-> error, rows |-> <<>>]

\* what a request to the store comes back with: the transport error it raises
\* when the store cannot be reached, the answer otherwise
client_search_Swallowed(failure, answer) ==
    IF failure # None THEN Return(<<>>) ELSE answer

client_search(failure, answer) ==
    IF failure # None THEN Raise(failure[1]) ELSE answer

\* the rows read from the buckets; a row reads bucket["damage_rate"]["value"],
\* which is a KeyError when a bucket has no such entry
ReadRows(buckets, rows) ==
    IF \E i \in DOMAIN buckets : buckets[i].damage_rate = None
    THEN Raise("KeyError")
    ELSE Return(rows)

\* _serialize_incident: the dataclass as a dict, date_reported in ISO form
_serialize_incident(incident) ==
    [incident EXCEPT !.date_reported = isoformat(incident.date_reported)]

insert_incident(store, incident) ==
    Index(store, incident.incident_id, _serialize_incident(incident))

RECURSIVE bulk_insert_incidents(_, _)
\* helpers.bulk with one index action per incident, in order
bulk_insert_incidents(store, incidents_list) ==
    IF incidents_list = <<>> THEN store
    ELSE bulk_insert_incidents(
             Index(store, Head(incidents_list).incident_id,
                   _serialize_incident(Head(incidents_list))),
             Tail(incidents_list))

damage_rate_per_supplier_MatchAll(store, product_type) ==
    LET suppliers == TermsBuckets(store, DOMAIN store, "supplier_id", SupplierIds,
                                  TermsSizeSuppliers)
        buckets == [i \in DOMAIN suppliers |->
                       MetricBucket(store, suppliers[i][1], suppliers[i][2])]
    IN  ReadRows(buckets, [i \in DOMAIN buckets |->
            [supplier_id |-> buckets[i].key,
             damage_rate |-> buckets[i].damage_rate[1],
             qty_total |-> buckets[i].total_qty,
             qty_damaged |-> buckets[i].damaged_qty]])

\* `if product_type` holds for a string that is neither None nor empty
damage_rate_per_supplier(store, product_type) ==
    LET hits == IF product_type # None /\ product_type[1] # ""
                THEN {id \in DOMAIN store : store[id].product_type = product_type[1]}
                ELSE DOMAIN store
        suppliers == TermsBuckets(store, hits, "supplier_id", SupplierIds, TermsSizeSuppliers)
        buckets == [i \in DOMAIN suppliers |->
                       MetricBucket(store, suppliers[i][1], suppliers[i][2])]
    IN  ReadRows(buckets, [i \in DOMAIN buckets |->
            [supplier_id |-> buckets[i].key,
             damage_rate |-> buckets[i].damage_rate[1],
             qty_total |-> buckets[i].total_qty,
             qty_damaged |-> buckets[i].damaged_qty]])

RECURSIVE FlattenRows(_)
FlattenRows(lists) == IF lists = <<>> THEN <<>> ELSE Head(lists) \o FlattenRows(Tail(lists))

damage_rate_per_supplier_and_type(store) ==
    LET suppliers == TermsBuckets(store, DOMAIN store, "supplier_id", SupplierIds,
                                  TermsSizeSuppliers)
        types(i) == TermsBuckets(store, suppliers[i][2], "product_type", ProductTypes,
                                 TermsSizeProductTypes)
        nested(i) == [j \in DOMAIN types(i) |->
                         [supplier |-> suppliers[i][1]]
                         @@ MetricBucket(store, types(i)[j][1], types(i)[j][2])]
        buckets == FlattenRows([i \in DOMAIN suppliers |-> nested(i)])
    IN  ReadRows(buckets, [i \in DOMAIN buckets |->
            [supplier_id |-> buckets[i].supplier,
             product_type |-> buckets[i].key,
             damage_rate |-> buckets[i].damage_rate[1],
             qty_total |-> buckets[i].total_qty,
             qty_damaged |-> buckets[i].damaged_qty]])

monthly_damage_rate_for_supplier_AllSuppliers(store, supplier_id) ==
    LET monthly == MonthBuckets(store, DOMAIN store, "date_reported")
        buckets == [i \in DOMAIN monthly |->
                       MetricBucket(store, monthly[i][1], monthly[i][2])]
    IN  ReadRows(buckets, [i \in DOMAIN buckets |->
            [month |-> MonthKeyAsString(buckets[i].key),
             damage_rate |-> buckets[i].damage_rate[1],
             qty_total |-> buckets[i].total_qty,
             qty_damaged |-> buckets[i].damaged_qty]])

monthly_damage_rate_for_supplier(store, supplier_id) ==
    LET hits == {id \in DOMAIN store : store[id].supplier_id = supplier_id}
        monthly == MonthBuckets(store, hits, "date_reported")
        buckets == [i \in DOMAIN monthly |->
                       MetricBucket(store, monthly[i][1], monthly[i][2])]
    IN  ReadRows(buckets, [i \in DOMAIN buckets |->
            [month |-> MonthKeyAsString(buckets[i].key),
             damage_rate |-> buckets[i].damage_rate[1],
             qty_total |-> buckets[i].total_qty,
             qty_damaged |-> buckets[i].damaged_qty]])

(***************************************************************************)
(* api/schemas.py, api/services.py, api/main.py, app/streamlit_app.py      *)
(***************************************************************************)
\* IncidentPayload: the field constraints pydantic checks before the handler runs
IncidentPayload(payload) ==
    /\ Len(payload.supplier_id) >= 1
    /\ payload.qty_total_in_shipment > 0
    /\ payload.qty_damaged >= 0
    /\ "damage_type" \in DOMAIN payload => payload.damage_type.kind = "list"

IncidentBody_KeepsEmpty(payload, uuid) ==
    LET named == IF payload.incident_id = None
                 THEN [payload EXCEPT !.incident_id = uuid]
                 ELSE [payload EXCEPT !.incident_id = payload.incident_id[1]]
    IN  IF "damage_type" \in DOMAIN named
        THEN [named EXCEPT !.damage_type = IF @.kind = "str" THEN <<@.string>>
                                           ELSE @.value]
        ELSE named

\* body after the first two steps of create_incident: an identifier that is
\* None or empty gives way to the generated one, and a damage_type that is a
\* single string becomes a list of it; a damage_type of a payload is
\* [kind |-> "list", value |-> the list] or [kind |-> "str", string |-> the string]
IncidentBody(payload, uuid) ==
    LET named == IF payload.incident_id \in {None, Some("")}
                 THEN [payload EXCEPT !.incident_id = uuid]
                 ELSE [payload EXCEPT !.incident_id = payload.incident_id[1]]
    IN  IF "damage_type" \in DOMAIN named
        THEN [named EXCEPT !.damage_type = IF @.kind = "str" THEN <<@.string>>
                                           ELSE @.value]
        ELSE named

create_incident_InsertFirst(store, payload, uuid) ==
    LET body == IncidentBody(payload, uuid)
    IN  IF body.qty_damaged > body.qty_total_in_shipment
        THEN [store |-> insert_incident(store, body), raised |-> "ValueError",
              writes |-> 1, incident_id |-> None]
        ELSE [store |-> insert_incident(store, body), raised |-> "", writes |-> 1,
              incident_id |-> Some(body.incident_id)]

\* services.create_incident(payload); uuid is the identifier uuid4 would give
create_incident(store, payload, uuid) ==
    LET body == IncidentBody(payload, uuid)
    IN  IF body.qty_damaged > body.qty_total_in_shipment
        THEN [store |-> store, raised |-> "ValueError", writes |-> 0,
              incident_id |-> None]
        ELSE [store |-> insert_incident(store, body), raised |-> "", writes |-> 1,
              incident_id |-> Some(body.incident_id)]

\* POST /api/incidents; the response keeps the identifier the request named and
\* the one generated for it
ApiCreateIncident(payload, uuid) ==
    /\ IF ~IncidentPayload(payload)
       THEN /\ response' = [op |-> "POST /api/incidents", status |-> 422,
                            raised |-> "RequestValidationError", writes |-> 0,
                            incident_id |-> None,
                            requested |-> payload.incident_id, generated |-> uuid]
            /\ UNCHANGED incidents
       ELSE LET result == create_incident(incidents, payload, uuid)
            IN  /\ incidents' = result.store
                /\ response' = [op |-> "POST /api/incidents",
                                status |-> IF result.raised = "ValueError" THEN 400 ELSE 200,
                                raised |-> result.raised, writes |-> result.writes,
                                incident_id |-> result.incident_id,
                                requested |-> payload.incident_id, generated |-> uuid]
    /\ UNCHANGED <<products, extractVars, setupVars>>

\* a direct services.create_incident(payload) call, which no schema precedes
CreateIncident(payload, uuid) ==
    /\ LET result == create_incident(incidents, payload, uuid)
       IN  /\ incidents' = result.store
           /\ response' = [op |-> "create_incident", raised |-> result.raised,
                           writes |-> result.writes, incident_id |-> result.incident_id,
                           requested |-> payload.incident_id, generated |-> uuid,
                           damage_type |-> payload.damage_type]
    /\ UNCHANGED <<products, extractVars, setupVars>>

\* a direct insert_incident(incident) call
InsertIncident(incident) ==
    /\ incidents' = insert_incident(incidents, incident)
    /\ response' = [op |-> "insert_incident", raised |-> "", writes |-> 1]
    /\ UNCHANGED <<products, extractVars, setupVars>>

\* a direct bulk_insert_incidents(incidents) call
BulkInsertIncidents(incidents_list) ==
    /\ incidents' = bulk_insert_incidents(incidents, incidents_list)
    /\ response' = [op |-> "bulk_insert_incidents", raised |-> "",
                    writes |-> Len(incidents_list)]
    /\ UNCHANGED <<products, extractVars, setupVars>>

\* render_incident_logging_page with the form submitted; the number inputs enforce
\* qty_total >= 1 and qty_damaged >= 0, and the identifier is a fresh uuid
SubmitIncidentForm(form, uuid) ==
    /\ form.qty_total >= 1
    /\ form.qty_damaged >= 0
    /\ IF form.supplier_id = "" \/ form.sku = ""
       THEN /\ response' = [op |-> "incident_form", raised |-> "", writes |-> 0]
            /\ UNCHANGED incidents
       ELSE /\ incidents' = insert_incident(incidents,
                                [incident_id |-> uuid,
                                 supplier_id |-> form.supplier_id,
                                 date_reported |-> form.date_reported,
                                 product_type |-> form.product_type,
                                 qty_total_in_shipment |-> form.qty_total,
                                 qty_damaged |-> form.qty_damaged])
            /\ response' = [op |-> "incident_form", raised |-> "", writes |-> 1]
    /\ UNCHANGED <<products, extractVars, setupVars>>

DamageRatePerSupplier(product_type, failure) ==
    /\ response' = [op |-> "damage_rate_per_supplier", product_type |-> product_type,
                    failure |-> failure]
                   @@ client_search(failure,
                                    damage_rate_per_supplier(incidents, product_type))
    /\ UNCHANGED <<incidents, products, extractVars, setupVars>>

DamageRatePerSupplierAndType(failure) ==
    /\ response' = [op |-> "damage_rate_per_supplier_and_type", failure |-> failure]
                   @@ client_search(failure, damage_rate_per_supplier_and_type(incidents))
    /\ UNCHANGED <<incidents, products, extractVars, setupVars>>

MonthlyDamageRateForSupplier_Consuming(supplier_id, failure) ==
    /\ response' = [op |-> "monthly_damage_rate_for_supplier",
                    supplier_id |-> supplier_id, failure |-> failure]
                   @@ client_search(failure,
                                    monthly_damage_rate_for_supplier(incidents, supplier_id))
    /\ incidents' = [id \in {i \in DOMAIN incidents : incidents[i].supplier_id # supplier_id}
                        |-> incidents[id]]
    /\ UNCHANGED <<products, extractVars, setupVars>>

MonthlyDamageRateForSupplier(supplier_id, failure) ==
    /\ response' = [op |-> "monthly_damage_rate_for_supplier",
                    supplier_id |-> supplier_id, failure |-> failure]
                   @@ client_search(failure,
                                    monthly_damage_rate_for_supplier(incidents, supplier_id))
    /\ UNCHANGED <<incidents, products, extractVars, setupVars>>

(***************************************************************************)
(* Incident runs                                                           *)
(***************************************************************************)
MaxQty == 1

MaxBulk == 2

\* identifiers of incident documents
IncidentIds == {"INC-1", "INC-2"}

\* what f"INC-{uuid4().hex[:12]}" can give: the random digits are taken to give
\* an identifier no stored document has; no code checks that they do
Uuid4(store) == IncidentIds \ DOMAIN store

\* <<supplier_id, product_type, date_reported>> of the shipments reported
Shipments ==
    { <<"SUP-1", "nail_polish", <<2025, 1, 10>> >>,
      <<"SUP-1", "tool", <<2025, 3, 5>> >>,
      <<"SUP-2", "nail_polish", <<2025, 1, 10>> >> }

\* shipment sizes, and damaged counts up to one more than the largest shipment
Totals == 0 .. MaxQty

Damaged == 0 .. (MaxQty + 1)

Incident(id, s, total, damaged) ==
    [incident_id |-> id, supplier_id |-> s[1], product_type |-> s[2],
     date_reported |-> s[3], qty_total_in_shipment |-> total, qty_damaged |-> damaged]

\* SupplierIncident values handed to insert_incident
SupplierIncidents ==
    {Incident(id, s, total, damaged) :
        id \in IncidentIds, s \in Shipments, total \in Totals, damaged \in Damaged}

\* request bodies of POST /api/incidents: without an identifier, or with one
IncidentPayloads ==
    {Incident(id, <<"SUP-1", "nail_polish", <<2025, 1, 10>> >>, total, damaged) :
        id \in {None, Some("INC-1")}, total \in Totals, damaged \in Damaged}

\* what the dashboard form can hold when it is submitted
IncidentForms ==
    {[supplier_id |-> who[1], sku |-> who[2], product_type |-> "nail_polish",
      date_reported |-> <<2025, 1, 10>>, qty_total |-> total, qty_damaged |-> damaged] :
        who \in {<<"SUP-1", "SKU123">>, <<"", "SKU123">>, <<"SUP-1", "">>},
        total \in 1 .. MaxQty, damaged \in Damaged}

\* the records a bulk load is made of
BulkIncidents ==
    {Incident(id, <<"SUP-2", "nail_polish", <<2025, 1, 10>> >>, MaxQty, MaxQty) :
        id \in IncidentIds}

BulkLists == UNION {[1 .. n -> BulkIncidents] : n \in 0 .. MaxBulk}

NoResponse == [op |-> "none"]

StoresEmpty ==
    /\ incidents = EmptyDict
    /\ products = EmptyDict
    /\ sku_daily_stats = EmptyDict
    /\ indices = IndexMappings
    /\ response = NoResponse

IncidentNext ==
    \/ \E payload \in IncidentPayloads :
           \E uuid \in IF payload.incident_id = None THEN Uuid4(incidents)
                        ELSE {"unused"} :
               ApiCreateIncident(payload, uuid)
    \/ \E incident \in SupplierIncidents : InsertIncident(incident)
    \/ \E incidents_list \in BulkLists : BulkInsertIncidents(incidents_list)
    \/ \E form \in IncidentForms, uuid \in Uuid4(incidents) :
           SubmitIncidentForm(form, uuid)
    \/ \E product_type \in {None} \cup {Some(t) : t \in Range(ProductTypes)} :
           DamageRatePerSupplier(product_type, None)
    \/ DamageRatePerSupplierAndType(None)
    \/ \E supplier_id \in Range(SupplierIds) :
           MonthlyDamageRateForSupplier(supplier_id, None)

(***************************************************************************)
(* services.upsert_product                                                 *)
(***************************************************************************)
\* ui.product_url_template of the default settings
product_url_template == None

\* Settings.product_url_for
product_url_for(sku) ==
    IF product_url_template # None /\ sku # ""
    THEN Some(<<product_url_template[1], sku>>)
    ELSE None

\* d.get(key): an Optional
Get(d, key) == IF key \in DOMAIN d THEN Some(d[key]) ELSE None

\* {k: v for k, v in d.items() if v is not None}
WithoutNone(d) == [k \in {k \in DOMAIN d : d[k] # None} |-> d[k][1]]

\* d.pop(key, None)
Pop(d, key) == [k \in DOMAIN d \ {key} |-> d[k]]

\* base_doc.get("description_html") or base_doc.get("description_short")
ProductDescription(base_doc) ==
    IF Truthy(Get(base_doc, "description_html"))
    THEN Get(base_doc, "description_html")
    ELSE Get(base_doc, "description_short")

MergedAttributes_DerivedWins(derived, explicit_attrs) == Update(explicit_attrs, derived)

\* the merged attribute map: derived.update(explicit_attrs)
MergedAttributes(derived, explicit_attrs) == Update(derived, explicit_attrs)

\* upsert_product(payload); now is what _now_iso() gives
upsert_product(store, payload, now) ==
    LET kept == WithoutNone(payload)
        sku == kept["sku"]
        nm == IF "name" \in DOMAIN kept THEN kept["name"] ELSE <<>>
        base_doc == Pop(kept, "attributes")
        explicit_attrs ==
            WithoutNone(IF "attributes" \in DOMAIN payload THEN payload["attributes"][1]
                        ELSE EmptyDict)
        derived == MergedAttributes(extract_attributes(nm, ProductDescription(kept)),
                                    explicit_attrs)
        document == Update(Update(base_doc, derived), "updated_at" :> now)
    IN  [store |-> Index(store, sku, document),
         result |-> [sku |-> sku, indexed |-> TRUE, attributes |-> derived,
                     url |-> product_url_for(sku)]]

\* POST /api/products; the response keeps the request it answers
UpsertProduct(payload, now) ==
    \E done \in {upsert_product(products, payload, now)} :
        /\ products' = done.store
        /\ response' = [op |-> "upsert_product", request |-> payload] @@ done.result
        /\ UNCHANGED <<incidents, extractVars, setupVars>>

(***************************************************************************)
(* ingest_products.py                                                      *)
(***************************************************************************)
\* row_to_document(row): the cells of the export that are not blank, under their
\* internal names, updated with the attributes derived from name and
\* description_html; a row is its cells "sku", "name" and "description_html"
row_to_document(row) ==
    LET document ==
            Entry(row.sku # "", "sku", row.sku)
            @@ Entry(Strip(row.name) # <<>>, "name", row.name)
            @@ Entry(Strip(row.description_html) # <<>>, "description_html",
                     row.description_html)
        extracted ==
            extract_attributes(IF "name" \in DOMAIN document THEN document["name"]
                               ELSE <<>>,
                               Get(document, "description_html"))
    IN  Update(document, extracted)

\* {"_op_type": "update", "_id": id, "doc": doc, "doc_as_upsert": True}: doc is
\* stored when the index holds nothing under id, and merged into the stored
\* document otherwise, whose other fields stay
UpdateAction_Replacing(store, id, doc) ==
    [store |-> Index(store, id, doc),
     result |-> IF id \notin DOMAIN store THEN "created"
                ELSE IF doc = store[id] THEN "noop" ELSE "updated"]

UpdateAction_AutoId(store, id, doc) ==
    LET free == {"auto-1", "auto-2", "auto-3", "auto-4"} \ DOMAIN store
        key == IF free = {} THEN id ELSE CHOOSE k \in free : TRUE
    IN  [store |-> Index(store, key, doc), result |-> "created"]

UpdateAction(store, id, doc) ==
    IF id \notin DOMAIN store
    THEN [store |-> Index(store, id, doc), result |-> "created"]
    ELSE [store |-> Index(store, id, Update(store[id], doc)),
          result |-> IF Update(store[id], doc) = store[id] THEN "noop" ELSE "updated"]

RECURSIVE StreamingBulk(_, _, _)
\* helpers.streaming_bulk over the update actions, in order; stats counts their
\* results
StreamingBulk(done, actions, i) ==
    IF i > Len(actions) THEN done
    ELSE LET step == UpdateAction(done.store, actions[i]["sku"], actions[i])
         IN  StreamingBulk([store |-> step.store,
                            stats |-> [done.stats EXCEPT ![step.result] = @ + 1]],
                           actions, i + 1)

RECURSIVE WithSku(_)
\* the documents that have a sku, in order: the others are skipped
WithSku(docs) ==
    IF docs = <<>> THEN <<>>
    ELSE IF "sku" \in DOMAIN Head(docs) THEN <<Head(docs)>> \o WithSku(Tail(docs))
    ELSE WithSku(Tail(docs))

\* the second half of bulk_index_products: the actions built from the rows are
\* sent, or RuntimeError is raised when there is none; the answer keeps, as
\* sent, the document last sent for each sku
SendActions(store, actions, skipped) ==
    LET done == StreamingBulk([store |-> store,
                               stats |-> [created |-> 0, updated |-> 0, noop |-> 0]],
                              actions, 1)
        sent == [sku \in {actions[i]["sku"] : i \in DOMAIN actions} |->
                    actions[SetMax({i \in DOMAIN actions : actions[i]["sku"] = sku})]]
    IN  IF actions = <<>>
        THEN [store |-> store, raised |-> "RuntimeError", sent |-> EmptyDict]
        ELSE [store |-> done.store, raised |-> "",
              stats |-> done.stats @@ [skipped |-> skipped],
              sent |-> Table(sent)]

\* the first half of bulk_index_products, on the documents of the rows: those
\* without a sku are skipped and counted
SendDocuments(store, docs) ==
    SendActions(store, WithSku(docs), Len(docs) - Len(WithSku(docs)))

\* the rows of the exports: a row without SKU, a row of a product whose name is
\* blank, and rows of one product whose name states a volume and a finish, or a
\* finish only
ProductRows ==
    {[sku |-> "", name |-> <<"L", "u", "c", "i", "o", "s">>, description_html |-> <<>>],
     [sku |-> "SKU200", name |-> <<" ">>, description_html |-> <<>>]}
    \cup {[sku |-> "SKU123", name |-> nm, description_html |-> <<>>] :
              nm \in { <<"1", "0", " ", "m", "l", " ", "L", "u", "c", "i", "o", "s">>,
                       <<"L", "u", "c", "i", "o", "s">> }}

\* row_to_document of each row an export can hold
RowDocuments == Table([row \in ProductRows |-> row_to_document(row)])

\* bulk_index_products(file_path) on an export whose rows are given
bulk_index_products(store, rows) ==
    SendDocuments(store, Table([i \in DOMAIN rows |-> RowDocuments[rows[i]]]))

\* a bulk_index_products run
BulkIndexProducts(rows) ==
    \E done \in {bulk_index_products(products, rows)} :
        /\ products' = done.store
        /\ response' = [op |-> "bulk_index_products", rows |-> rows]
                       @@ [k \in DOMAIN done \ {"store"} |-> done[k]]
        /\ UNCHANGED <<incidents, extractVars, setupVars>>

(***************************************************************************)
(* Product runs                                                            *)
(***************************************************************************)
MaxRows == 2

Exports == UNION {[1 .. n -> ProductRows] : n \in 0 .. MaxRows}

Skus == {"SKU123", "SKU200"}

Timestamps == {"2025-05-10T12:00:00"}

\* <<name, description_html, description_short>>
ProductTexts ==
    { << <<"1", "0", " ", "m", "l", " ", "L", "u", "c", "i", "o", "s">>, None, None >>,
      << <<"x">>,
         Some(<<"g", "l", "i", "t", "t", "e", "r", " ", "U", "V", " ", "L", "E", "D">>),
         Some(<<"0", "1", "5", "M", "L">>) >>,
      << <<"L", "u", "c", "i", "o", "s">>, Some(<<>>), Some(<<"0", "1", "5", "M", "L">>) >> }

\* payload["attributes"]: explicit overrides, some of them null
AttributeOverrides ==
    { EmptyDict,
      "attr_volume_ml" :> Some(250),
      ("attr_volume_ml" :> None) @@ ("attr_finish" :> Some(<<"m", "a", "t">>)) }

ProductPayloads ==
    {("sku" :> Some(sku)) @@ ("name" :> Some(text[1])) @@ ("description_html" :> text[2])
        @@ ("description_short" :> text[3]) @@ ("attributes" :> Some(overrides)) :
        sku \in Skus, text \in ProductTexts, overrides \in AttributeOverrides}

ProductNext ==
    \E payload \in ProductPayloads, now \in Timestamps : UpsertProduct(payload, now)

\* requests that ingest the product of the exports again, without overrides
IngestPayloads ==
    {payload \in ProductPayloads :
        payload["sku"] = Some("SKU123") /\ payload["attributes"] = Some(EmptyDict)}

IngestNext ==
    \/ \E payload \in IngestPayloads, now \in Timestamps : UpsertProduct(payload, now)
    \/ \E rows \in Exports : BulkIndexProducts(rows)

(***************************************************************************)
(* Specifications                                                          *)
(***************************************************************************)
ExtractInit == ExtractInputs /\ StoresEmpty

ExtractNext == ExtractCall /\ UNCHANGED storeVars

SpecExtract == ExtractInit /\ [][ExtractNext]_vars

IncidentInit == ExtractIdle /\ StoresEmpty

SpecIncidents == IncidentInit /\ [][IncidentNext]_vars

ProductInit == ExtractIdle /\ StoresEmpty

SpecProducts == ProductInit /\ [][ProductNext]_vars

IngestInit == ExtractIdle /\ StoresEmpty

SpecIngest == IngestInit /\ [][IngestNext]_vars

(***************************************************************************)
(* Properties of incident logging and of the damage-rate aggregations      *)
(***************************************************************************)
\* C1: whenever POST /api/incidents is called with qty_damaged greater than
\* qty_total_in_shipment the call is rejected and the incident store is left as
\* it was, with no write performed: a payload the schema accepts makes
\* create_incident raise ValueError, answered with status 400, and one the
\* schema refuses is answered with status 422 before the handler runs.
C1_ExcessDamageRejected ==
    [][\A payload \in IncidentPayloads :
           (/\ response'.op = "POST /api/incidents"
            /\ payload.qty_damaged > payload.qty_total_in_shipment
            /\ \E uuid \in IncidentIds \cup {"unused"} : ApiCreateIncident(payload, uuid))
           => /\ incidents' = incidents
              /\ response'.writes = 0
              /\ IF IncidentPayload(payload)
                 THEN response'.raised = "ValueError" /\ response'.status = 400
                 ELSE response'.status = 422]_vars

\* a request with more damaged items than shipped was refused with 400 while the
\* store already held incidents
C1_Witness ==
    /\ response.op = "POST /api/incidents"
    /\ response.raised = "ValueError"
    /\ response.status = 400
    /\ response.writes = 0
    /\ incidents # EmptyDict

\* C2: every incident document in the store has qty_total_in_shipment > 0,
\* qty_damaged >= 0 and qty_damaged <= qty_total_in_shipment, whichever of the
\* incident-creating operations wrote it.
C2_StoredQuantitiesValid ==
    \A id \in DOMAIN incidents :
        /\ incidents[id].qty_total_in_shipment > 0
        /\ incidents[id].qty_damaged >= 0
        /\ incidents[id].qty_damaged <= incidents[id].qty_total_in_shipment

DamageRateOps ==
    {"damage_rate_per_supplier", "damage_rate_per_supplier_and_type",
     "monthly_damage_rate_for_supplier"}

\* C3: a damage-rate operation never raises, and every row it returns for a
\* bucket whose summed qty_total_in_shipment is 0 (a month without incidents
\* included) has damage_rate exactly 0.
C3_ZeroTotalYieldsZeroRate ==
    response.op \in DamageRateOps =>
        /\ response.raised = ""
        /\ \A i \in DOMAIN response.rows :
               response.rows[i].qty_total = 0 => response.rows[i].damage_rate = Zero

\* C4: every damage_rate a damage-rate operation returns lies in [0, 1].
C4_DamageRateInUnitInterval ==
    response.op \in DamageRateOps =>
        \A i \in DOMAIN response.rows :
            /\ 0 <= response.rows[i].damage_rate.num
            /\ response.rows[i].damage_rate.num <= response.rows[i].damage_rate.den

(***************************************************************************)
(* Properties of upsert_product                                            *)
(***************************************************************************)
\* C5: after upsert_product, every key the text of the request derives carries,
\* in the returned attribute map and in the stored document alike, the request's
\* non-null override for that key when there is one and the derived value
\* otherwise.
C5_OverrideWinsOnCollision ==
    response.op = "upsert_product" =>
        LET payload == response.request
            text_derived == extract_attributes(payload["name"][1],
                                               ProductDescription(WithoutNone(payload)))
            overrides == payload["attributes"][1]
            overridden == {k \in DOMAIN overrides : overrides[k] # None}
        IN  \A k \in DOMAIN text_derived :
                LET expected == IF k \in overridden THEN overrides[k][1]
                                ELSE text_derived[k]
                IN  /\ response.attributes[k] = expected
                    /\ products[payload["sku"][1]][k] = expected

\* a request whose name derives a volume of 10 ml and whose override says 250:
\* the answer and the stored document carry 250, and the derived finish is kept
C5_Witness ==
    /\ response.op = "upsert_product"
    /\ LET payload == response.request
           text_derived == extract_attributes(payload["name"][1],
                                              ProductDescription(WithoutNone(payload)))
       IN  /\ "attr_volume_ml" \in DOMAIN text_derived
           /\ text_derived["attr_volume_ml"] = 10
           /\ "attr_volume_ml" \in DOMAIN payload["attributes"][1]
           /\ payload["attributes"][1]["attr_volume_ml"] = Some(250)
           /\ response.attributes["attr_volume_ml"] = 250
           /\ products[payload["sku"][1]]["attr_volume_ml"] = 250
           /\ response.attributes["attr_finish"] = text_derived["attr_finish"]

(***************************************************************************)
(* Properties of extract_attributes                                        *)
(***************************************************************************)
\* the text the extraction of the current state ran on
CombinedText == Haystack(name, description)

\* the keyword attributes with their lists
KeywordCategories ==
    << [key |-> "attr_finish", keywords |-> FINISH_KEYWORDS],
       [key |-> "attr_curing_type", keywords |-> CURING_KEYWORDS],
       [key |-> "attr_liquid_type", keywords |-> LIQUID_TYPES],
       [key |-> "attr_scent", keywords |-> SCENT_KEYWORDS],
       [key |-> "attr_material", keywords |-> MATERIAL_KEYWORDS],
       [key |-> "attr_shape", keywords |-> SHAPE_KEYWORDS],
       [key |-> "attr_color_name", keywords |-> COLOR_KEYWORDS] >>

\* indexes of the keywords of a list that occur in the lower-cased text
Occurring(keywords) ==
    LET lower == Lower(CombinedText)
    IN  {j \in DOMAIN keywords : Contains(lower, keywords[j])}

\* the form in which a keyword is stored under its key
Normalised(key, keyword) ==
    IF key = "attr_curing_type" THEN Upper(RemoveSpaces(keyword)) ELSE keyword

NumericKeys == {"attr_volume_ml", "attr_strength_percent", "attr_length_mm"}

PatternKeys == NumericKeys \cup {"attr_grit", "attr_shade_code", "attr_collection"}

\* the pattern of a key matches somewhere in the text
PatternMatched(key, t) ==
    \E i \in 1 .. Len(t) :
        CASE key = "attr_volume_ml" -> VOLUME_PATTERN(t, i) # None
          [] key = "attr_strength_percent" -> STRENGTH_PATTERN(t, i) # None
          [] key = "attr_length_mm" -> LENGTH_PATTERN(t, i) # None
          [] key = "attr_grit" -> GRIT_PATTERN(t, i) # None
          [] key = "attr_shade_code" -> SHADE_PATTERN(t, i) # None
          [] key = "attr_collection" -> COLLECTION_PATTERN(t, i) # None

\* the digits of the leftmost match of a numeric key's pattern
MatchedDigits(key, t) ==
    CASE key = "attr_volume_ml" -> VolumeSearch(t)[1].g1
      [] key = "attr_strength_percent" -> StrengthSearch(t)[1].g1
      [] key = "attr_length_mm" -> LengthSearch(t)[1].g1

\* C6: the mapping extract_attributes returns is sparse: a key is present
\* exactly when its pattern or one of its keywords matched the combined text, a
\* textual value is never null or empty, and a numeric value is 0 only when the
\* digits matched in the text denote 0.
C6_SparseMapping ==
    pc = "extracted" =>
        /\ LET text == CombinedText
           IN  \A key \in PatternKeys :
                   key \in DOMAIN attributes <=> PatternMatched(key, text)
        /\ \A c \in Range(KeywordCategories) :
               c.key \in DOMAIN attributes <=> Occurring(c.keywords) # {}
        /\ DOMAIN attributes \subseteq
               PatternKeys \cup {c.key : c \in Range(KeywordCategories)}
        /\ \A key \in DOMAIN attributes \ NumericKeys : attributes[key] # <<>>
        /\ \A key \in DOMAIN attributes \cap NumericKeys :
               /\ attributes[key] \in Nat
               /\ attributes[key] = 0 =>
                      Range(MatchedDigits(key, CombinedText)) = {"0"}

\* "0ml" was extracted: the volume is present with the value 0 the text states,
\* and the keys nothing matched are absent
C6_Witness ==
    /\ pc = "extracted"
    /\ "attr_volume_ml" \in DOMAIN attributes
    /\ attributes["attr_volume_ml"] = 0
    /\ "attr_finish" \notin DOMAIN attributes
    /\ "attr_strength_percent" \notin DOMAIN attributes

\* "<n> ml" with n in 1..999 written with k digits stands at position i
VolumeTokenAt(t, i, k) ==
    /\ AllIn(t, i, k, Digits)
    /\ At(t, i) # "0"
    /\ At(t, i + k) = " "
    /\ At(t, i + k + 1) = "m"
    /\ At(t, i + k + 2) = "l"

\* the value attributes holds under key is n
Yields(key, n) == key \in DOMAIN attributes /\ attributes[key] = n

\* C7 as stated: whenever the text contains "<n> ml" with n in 1..999, the
\* extracted attr_volume_ml is n.
C7_AnyVolumeTokenYieldsIt ==
    pc = "extracted" =>
        LET text == CombinedText
        IN  \A i \in 1 .. Len(text), k \in 1 .. 3 :
                VolumeTokenAt(text, i, k) =>
                    Yields("attr_volume_ml", ParseFloat(SubSeq(text, i, i + k - 1)))

\* C7: when "<n> ml" with n in 1..999 stands in the text as a token of its own
\* (no digit in front of it, no letter, digit or underscore behind it) and the
\* volume pattern matches nowhere to the left of it, the extracted attr_volume_ml
\* is n.
C7_FirstVolumeTokenYieldsIt ==
    pc = "extracted" =>
        LET text == CombinedText
        IN  \A i \in 1 .. Len(text), k \in 1 .. 3 :
                (/\ VolumeTokenAt(text, i, k)
                 /\ At(text, i - 1) \notin Digits
                 /\ At(text, i + k + 3) \notin WordChars
                 /\ \A j \in 1 .. (i - 1) : VOLUME_PATTERN(text, j) = None)
                => Yields("attr_volume_ml", ParseFloat(SubSeq(text, i, i + k - 1)))

\* "10 ml" stands behind other text and is the first volume: 10 was extracted
C7_Witness ==
    /\ pc = "extracted"
    /\ \E i \in 2 .. Len(CombinedText) :
           /\ VolumeTokenAt(CombinedText, i, 2)
           /\ At(CombinedText, i - 1) \notin Digits
           /\ \A j \in 1 .. (i - 1) : VOLUME_PATTERN(CombinedText, j) = None
    /\ Yields("attr_volume_ml", 10)

\* a run of exactly k digits immediately followed by '%' stands at position i
StrengthTokenAt(t, i, k) ==
    /\ AllIn(t, i, k, Digits)
    /\ At(t, i - 1) \notin Digits
    /\ At(t, i + k) = "%"

\* C8 as stated: whenever the text contains a token of 2 or 3 digits immediately
\* followed by '%', the extracted attr_strength_percent is that number.
C8_AnyStrengthTokenYieldsIt ==
    pc = "extracted" =>
        LET text == CombinedText
        IN  \A i \in 1 .. Len(text), k \in 2 .. 3 :
                StrengthTokenAt(text, i, k) =>
                    Yields("attr_strength_percent",
                           ParseFloat(SubSeq(text, i, i + k - 1)))

\* C8: when the text contains a token of 2 or 3 digits immediately followed by
\* '%' and the strength pattern (2 or 3 digits, an optional blank, '%') matches
\* nowhere to the left of it, the extracted attr_strength_percent is that number.
C8_FirstStrengthTokenYieldsIt ==
    pc = "extracted" =>
        LET text == CombinedText
        IN  \A i \in 1 .. Len(text), k \in 2 .. 3 :
                (/\ StrengthTokenAt(text, i, k)
                 /\ \A j \in 1 .. (i - 1) : STRENGTH_PATTERN(text, j) = None)
                => Yields("attr_strength_percent",
                          ParseFloat(SubSeq(text, i, i + k - 1)))

\* a three-digit token "200%" stands behind other text that holds no strength:
\* 200 was extracted
C8_Witness ==
    /\ pc = "extracted"
    /\ \E i \in 2 .. Len(CombinedText) :
           /\ StrengthTokenAt(CombinedText, i, 3)
           /\ \A j \in 1 .. (i - 1) : STRENGTH_PATTERN(CombinedText, j) = None
    /\ Yields("attr_strength_percent", 200)

\* C9: for each keyword attribute the key is absent when no keyword of its list
\* occurs in the lower-cased combined text, and otherwise its value is the
\* occurring keyword that stands earliest in the list (curing_type in its stored
\* form, blanks removed and upper-cased), wherever in the text it occurs.
C9_EarliestInListOrder ==
    pc = "extracted" =>
        \A c \in Range(KeywordCategories) :
            LET occurring == Occurring(c.keywords)
            IN  IF occurring = {}
                THEN c.key \notin DOMAIN attributes
                ELSE Yields(c.key, Normalised(c.key, c.keywords[SetMin(occurring)]))

\* 'Degresant' stands before 'acetona' in the name and liquid_type is 'aceton'
C9_Witness ==
    /\ pc = "extracted"
    /\ name = <<"D", "e", "g", "r", "e", "s", "a", "n", "t",
                "a", "c", "e", "t", "o", "n", "a_breve">>
    /\ Yields("attr_liquid_type", <<"a", "c", "e", "t", "o", "n">>)

CollectionMarkerSpellings ==
    << <<"c", "o", "l", "e", "c", "t_comma", "i", "a">>,
       <<"c", "o", "l", "e", "c", "t", "i", "e", "i">> >>

\* the text from position p up to the next digit or the end of the text, trimmed
TextUpToDigit(t, p) ==
    LET digits == {d \in p .. Len(t) : t[d] \in Digits}
        stop == IF digits = {} THEN Len(t) + 1 ELSE SetMin(digits)
    IN  Strip(SubSeq(t, p, stop - 1))

\* C11 as stated: for every text containing a collection marker in any letter
\* case, attr_collection is the trimmed text that follows the marker up to the
\* next digit or the end of the text, several words included.
C11_CollectionIsTextAfterMarker ==
    pc = "extracted" =>
        LET text == CombinedText
            lower == Lower(text)
        IN  \A m \in Range(CollectionMarkerSpellings) :
                LET at == FirstOccurrence(lower, m)
                IN  at # 0 =>
                        Yields("attr_collection", TextUpToDigit(text, at + Len(m)))

(***************************************************************************)
(* attribute_analysis.py: aggregations over the products index             *)
(***************************************************************************)
\* PRODUCTS_MAPPING is "dynamic": "false": only the fields it names are indexed
IndexedProductFields ==
    {"sku", "name", "group_code", "active", "stock_status", "brand",
     "description_html", "description_short", "description_feed", "price",
     "price_list", "price_final", "vat_included", "vat_rate", "image_url",
     "image_main", "image_secondary_1", "image_secondary_2", "category_path",
     "category_main", "subcategory_level1", "subcategory_level2", "meta_title",
     "meta_description", "keywords", "cross_sell_skus", "up_sell_skus",
     "ingredients_html", "total_revenue", "attr_volume_ml", "attr_color_name",
     "attr_shade_code", "attr_finish", "attr_curing_type", "attr_collection",
     "attr_liquid_type", "attr_scent", "attr_strength_percent", "attr_length_mm",
     "attr_material", "attr_grit", "attr_shape", "updated_at"}

\* {"exists": {"field": field}}: the documents that hold an indexed value
Exists(store, ids, field) ==
    {id \in ids : field \in IndexedProductFields /\ field \in DOMAIN store[id]}

\* {"value_count": {"field": field}} over single-valued documents
ValueCount(store, ids, field) == Cardinality(Exists(store, ids, field))

TermsSizeCategories == 200

\* a three-digit decimal numeral
Pad3(n) ==
    IF n < 10 THEN "00" \o ToString(n)
    ELSE IF n < 100 THEN "0" \o ToString(n) ELSE ToString(n)

\* the category names, in ascending order: two named ones and as many numbered
\* ones as one terms request returns
Categories ==
    <<"Accessories">> \o [i \in 1 .. TermsSizeCategories |-> "C" \o Pad3(i)]
    \o <<"Gel Polish">>

attribute_coverage_by_category_WholeIndex(store, attribute_field) ==
    LET buckets == TermsBuckets(store, Exists(store, DOMAIN store, "category_main"),
                                "category_main", Categories, TermsSizeCategories)
    IN  Return([i \in DOMAIN buckets |->
            LET total == ValueCount(store, buckets[i][2], "sku")
                with_attr == ValueCount(store,
                                 Exists(store, DOMAIN store, attribute_field), "sku")
            IN  [category_main |-> buckets[i][1],
                 total_skus |-> total,
                 with_attribute |-> with_attr,
                 coverage_ratio |-> IF total # 0 THEN Fraction(with_attr, total)
                                    ELSE Zero]])

attribute_coverage_by_category(store, attribute_field) ==
    LET buckets == TermsBuckets(store, Exists(store, DOMAIN store, "category_main"),
                                "category_main", Categories, TermsSizeCategories)
    IN  Return([i \in DOMAIN buckets |->
            LET total == ValueCount(store, buckets[i][2], "sku")
                with_attr == ValueCount(store,
                                 Exists(store, buckets[i][2], attribute_field), "sku")
            IN  [category_main |-> buckets[i][1],
                 total_skus |-> total,
                 with_attribute |-> with_attr,
                 coverage_ratio |-> IF total # 0 THEN Fraction(with_attr, total)
                                    ELSE Zero]])

\* the SKUs in ascending order
SkuOrder ==
    <<"SKU1", "SKU2", "SKU3">> \o [i \in 1 .. TermsSizeCategories |-> "SKU9" \o Pad3(i)]

\* hit a sorts in front of hit b under
\* [{"price_final": {"order": "desc", "missing": "_last"}}, {"sku": {"order": "asc"}}]
SortsBefore_PriceAscending(store, a, b) ==
    LET priced(x) == "price_final" \in DOMAIN store[x]
    IN  \/ priced(a) /\ ~priced(b)
        \/ priced(a) /\ priced(b) /\ store[a]["price_final"] < store[b]["price_final"]
        \/ /\ priced(a) = priced(b)
           /\ priced(a) => store[a]["price_final"] = store[b]["price_final"]
           /\ IndexOf(SkuOrder, store[a]["sku"]) < IndexOf(SkuOrder, store[b]["sku"])

SortsBefore(store, a, b) ==
    LET priced(x) == "price_final" \in DOMAIN store[x]
    IN  \/ priced(a) /\ ~priced(b)
        \/ priced(a) /\ priced(b) /\ store[a]["price_final"] > store[b]["price_final"]
        \/ /\ priced(a) = priced(b)
           /\ priced(a) => store[a]["price_final"] = store[b]["price_final"]
           /\ IndexOf(SkuOrder, store[a]["sku"]) < IndexOf(SkuOrder, store[b]["sku"])

\* the hits in the order of the sort clause
SortHits(store, hits) ==
    Arrange(hits, Table([h \in hits |->
                            1 + Cardinality({o \in hits : SortsBefore(store, o, h)})]))

\* "_source": [...]: the listed fields a document holds
SourceFields == {"sku", "name", "brand", "price_final", "category_main", "image_url"}

SourceFilter(doc) == [k \in DOMAIN doc \cap SourceFields |-> doc[k]]

missing_attribute_fix_list(store, attribute_field, category_main_filter, size) ==
    LET in_category == {id \in Exists(store, DOMAIN store, "category_main") :
                           store[id]["category_main"] = category_main_filter}
        hits == in_category \ Exists(store, in_category, attribute_field)
        page == Take(SortHits(store, hits), size)
    IN  Return([i \in DOMAIN page |-> SourceFilter(store[page[i]])])

\* attribute_coverage_by_category(attribute_field) on the products index
AttributeCoverageByCategory(attribute_field, failure) ==
    /\ response' = [op |-> "attribute_coverage_by_category",
                    attribute_field |-> attribute_field, failure |-> failure]
                   @@ client_search(failure,
                                    attribute_coverage_by_category(products, attribute_field))
    /\ UNCHANGED <<incidents, products, extractVars, setupVars>>

\* missing_attribute_fix_list(attribute_field, category_main_filter, size)
MissingAttributeFixList(attribute_field, category_main_filter, size, failure) ==
    /\ response' = [op |-> "missing_attribute_fix_list",
                    attribute_field |-> attribute_field,
                    category_main_filter |-> category_main_filter, size |-> size,
                    failure |-> failure]
                   @@ client_search(failure,
                                    missing_attribute_fix_list(products, attribute_field,
                                                               category_main_filter, size))
    /\ UNCHANGED <<incidents, products, extractVars, setupVars>>

\* {"sum": {"field": "total_revenue"}}: documents without the field add nothing
Revenue(store, ids) ==
    SumField(store, {id \in ids : "total_revenue" \in DOMAIN store[id]}, "total_revenue")

attribute_importance_by_revenue(store, attribute_field, category_main_filter) ==
    LET in_category == {id \in Exists(store, DOMAIN store, "category_main") :
                           store[id]["category_main"] = category_main_filter}
        with_attr == Exists(store, in_category, attribute_field)
    IN  Return([with_attribute |-> Revenue(store, with_attr),
                without_attribute |-> Revenue(store, in_category \ with_attr)])

\* attribute_importance_by_revenue(attribute_field, category_main_filter)
AttributeImportanceByRevenue(attribute_field, category_main_filter, failure) ==
    /\ response' = [op |-> "attribute_importance_by_revenue",
                    attribute_field |-> attribute_field,
                    category_main_filter |-> category_main_filter, failure |-> failure]
                   @@ client_search(failure,
                                    attribute_importance_by_revenue(products, attribute_field,
                                                                    category_main_filter))
    /\ UNCHANGED <<incidents, products, extractVars, setupVars>>

(***************************************************************************)
(* Catalog runs: queries on catalogs that upsert_product calls left behind *)
(***************************************************************************)
MaxSize == 2

\* <<category_main, price_final, name>> of the products offered
CatalogEntries ==
    { <<Some("Gel Polish"), Some(10), <<"L", "u", "c", "i", "o", "s">> >>,
      <<Some("Gel Polish"), Some(10), <<"x">> >>,
      <<Some("Gel Polish"), Some(8), <<"x">> >>,
      <<Some("Gel Polish"), None, <<"x">> >>,
      <<Some("Accessories"), Some(10), <<"x">> >>,
      <<Some("Accessories"), None, <<"L", "u", "c", "i", "o", "s">> >>,
      <<None, Some(10), <<"x">> >> }

CatalogPayload(sku, entry) ==
    ("sku" :> Some(sku)) @@ ("name" :> Some(entry[3])) @@ ("category_main" :> entry[1])
    @@ ("price_final" :> entry[2]) @@ ("description_html" :> None)
    @@ ("description_short" :> None) @@ ("attributes" :> Some(EmptyDict))

\* the document upsert_product stores for a product
CatalogDocument(sku, entry) ==
    upsert_product(EmptyDict, CatalogPayload(sku, entry), "2025-05-10T12:00:00").store[sku]

CatalogSkus == {"SKU1", "SKU2", "SKU3"}

\* the i-th product of a catalog that fills TermsSizeCategories further categories
NumberedProduct(i) ==
    <<SkuOrder[3 + i],
      <<Some(Categories[1 + i]), Some(8), <<"L", "u", "c", "i", "o", "s">> >> >>

\* the documents of all products offered, by <<sku, entry>>
CatalogDocuments ==
    Table([product \in (CatalogSkus \X CatalogEntries)
                       \cup {NumberedProduct(i) : i \in 1 .. TermsSizeCategories} |->
              CatalogDocument(product[1], product[2])])

\* the catalogs of up to three products
Catalogs ==
    UNION {{[sku \in present |-> CatalogDocuments[<<sku, entries[sku]>>]] :
               entries \in [present -> CatalogEntries]} :
           present \in SUBSET CatalogSkus}

\* a catalog with one product in each of TermsSizeCategories + 1 categories
LargeCatalog ==
    LET numbered == {NumberedProduct(i) : i \in 1 .. TermsSizeCategories}
        products_in == numbered \cup {<<"SKU1", <<Some("Gel Polish"), Some(10), <<"x">> >> >>}
    IN  Table([sku \in {product[1] : product \in products_in} |->
                  CatalogDocuments[CHOOSE product \in products_in : product[1] = sku]])

QueryAttributes == {"attr_finish", "attr_volume_ml"}

QueryCategories == {"Accessories", "Gel Polish", "Tools"}

CatalogInit ==
    /\ ExtractIdle
    /\ incidents = EmptyDict
    /\ sku_daily_stats = EmptyDict
    /\ indices = IndexMappings
    /\ \/ products \in Catalogs
       \/ products = LargeCatalog
    /\ response = NoResponse

CatalogNext ==
    \/ \E attribute_field \in QueryAttributes :
           AttributeCoverageByCategory(attribute_field, None)
    \/ \E attribute_field \in QueryAttributes, category \in QueryCategories,
          size \in 1 .. MaxSize :
           MissingAttributeFixList(attribute_field, category, size, None)

SpecCatalog == CatalogInit /\ [][CatalogNext]_vars
(***************************************************************************)
(* Properties of the catalog aggregations                                  *)
(***************************************************************************)
\* the products of the catalog filed under a category
InCategory(category) ==
    {sku \in DOMAIN products :
        /\ "category_main" \in DOMAIN products[sku]
        /\ products[sku]["category_main"] = category}

\* row a may stand in front of row b: the higher price first, a row without a
\* price behind every priced one, equal prices by ascending SKU
RowsInOrder(a, b) ==
    LET priced(x) == "price_final" \in DOMAIN x
    IN  \/ priced(a) /\ ~priced(b)
        \/ priced(a) /\ priced(b) /\ a["price_final"] > b["price_final"]
        \/ /\ priced(a) = priced(b)
           /\ priced(a) => a["price_final"] = b["price_final"]
           /\ IndexOf(SkuOrder, a["sku"]) < IndexOf(SkuOrder, b["sku"])

\* C12: missing_attribute_fix_list(attribute, category, limit) does not raise and
\* returns at most `limit` items, each the summary of a different product of the
\* given category that lacks the attribute, sorted by price_final descending with
\* the products without a price last and equal prices by ascending SKU; a product
\* of that kind which is left out stands behind every returned one in that order.
C12_FixListSortedAndLimited ==
    response.op = "missing_attribute_fix_list" =>
        LET rows == response.rows
            lacking == {sku \in InCategory(response.category_main_filter) :
                           response.attribute_field \notin DOMAIN products[sku]}
            returned == {rows[i]["sku"] : i \in DOMAIN rows}
        IN  /\ response.raised = ""
            /\ Len(rows) <= response.size
            /\ Len(rows) = Cardinality(returned)
            /\ returned \subseteq lacking
            /\ \A i \in DOMAIN rows :
                   /\ rows[i] = SourceFilter(products[rows[i]["sku"]])
                   /\ \A j \in DOMAIN rows : i < j => RowsInOrder(rows[i], rows[j])
                   /\ \A sku \in lacking \ returned :
                          RowsInOrder(rows[i], SourceFilter(products[sku]))
            /\ lacking \ returned # {} => Len(rows) = response.size

\* three products of the category lack the attribute and two were asked for: the
\* two returned have the same price and stand by ascending SKU, and the product
\* without a price is the one left out
C12_Witness ==
    /\ response.op = "missing_attribute_fix_list"
    /\ response.size = 2
    /\ Len(response.rows) = 2
    /\ Cardinality(InCategory(response.category_main_filter)) = 3
    /\ response.rows[1]["sku"] = "SKU1"
    /\ response.rows[2]["sku"] = "SKU3"
    /\ "price_final" \in DOMAIN response.rows[1] \cap DOMAIN response.rows[2]
    /\ response.rows[1]["price_final"] = response.rows[2]["price_final"]
    /\ "price_final" \notin DOMAIN products["SKU2"]
    /\ response.attribute_field \notin DOMAIN products["SKU2"]

\* the categories products are filed under
CatalogCategories ==
    {products[sku]["category_main"] :
        sku \in {s \in DOMAIN products : "category_main" \in DOMAIN products[s]}}

\* the row a coverage answer holds for a category is the right one
CoverageRowFor(category, row) ==
    LET total == Cardinality(InCategory(category))
        with_attribute == Cardinality({sku \in InCategory(category) :
                                          response.attribute_field \in DOMAIN products[sku]})
    IN  /\ row.category_main = category
        /\ row.total_skus = total
        /\ row.with_attribute = with_attribute
        /\ row.coverage_ratio = Fraction(with_attribute, total)

\* C13 as stated: attribute_coverage_by_category returns, for every product
\* category, total_skus = the number of products in the category, with_attribute =
\* the number of those where the attribute is present, and coverage_ratio =
\* with_attribute / total_skus.
C13_EveryCategoryCovered ==
    response.op = "attribute_coverage_by_category" =>
        \A category \in CatalogCategories :
            \E i \in DOMAIN response.rows : CoverageRowFor(category, response.rows[i])

\* the number of categories that stand in front of each category when the larger
\* category comes first and equal sizes go by ascending name
CategoriesAhead ==
    LET sizes == Table([c \in CatalogCategories |-> Cardinality(InCategory(c))])
        place == Table([c \in CatalogCategories |-> IndexOf(Categories, c)])
    IN  Table([c \in CatalogCategories |->
                  Cardinality({o \in CatalogCategories :
                                  \/ sizes[o] > sizes[c]
                                  \/ sizes[o] = sizes[c] /\ place[o] < place[c]})])

\* C13: attribute_coverage_by_category does not raise and returns exactly one row
\* for each of the 200 categories with the most products (equal sizes by ascending
\* name; every category when there are at most 200), with total_skus = the number
\* of products in the category, with_attribute = the number of those where the
\* attribute is present, and coverage_ratio = with_attribute / total_skus; it
\* returns no row for any other category.
C13_LargestCategoriesCovered ==
    response.op = "attribute_coverage_by_category" =>
        LET rows == response.rows
            ahead == CategoriesAhead
            largest == {c \in CatalogCategories : ahead[c] < TermsSizeCategories}
        IN  /\ response.raised = ""
            /\ Len(rows) = Cardinality(largest)
            /\ \A category \in largest :
                   \E i \in DOMAIN rows : CoverageRowFor(category, rows[i])
            /\ \A i \in DOMAIN rows : rows[i].category_main \in largest

\* two categories are covered in one answer: one of the two Gel Polish products
\* has the attribute, which gives 1/2, and the one Accessories product has not,
\* which gives 0
C13_Witness ==
    /\ response.op = "attribute_coverage_by_category"
    /\ Len(response.rows) = 2
    /\ \E i, j \in DOMAIN response.rows :
           /\ response.rows[i] = [category_main |-> "Gel Polish", total_skus |-> 2,
                                  with_attribute |-> 1,
                                  coverage_ratio |-> [num |-> 1, den |-> 2]]
           /\ response.rows[j] = [category_main |-> "Accessories", total_skus |-> 1,
                                  with_attribute |-> 0, coverage_ratio |-> Zero]
(***************************************************************************)
(* Properties of the supplier reports                                      *)
(***************************************************************************)
\* the incidents of a supplier among the documents ids
OfSupplier(ids, supplier_id) == {id \in ids : incidents[id].supplier_id = supplier_id}

\* a damage-rate answer holds exactly one row for the supplier, and its two
\* quantities are the sums over the supplier's incidents among ids
SupplierRowSums(ids, supplier_id) ==
    /\ Cardinality({i \in DOMAIN response.rows :
                       response.rows[i].supplier_id = supplier_id}) = 1
    /\ \A i \in DOMAIN response.rows :
           response.rows[i].supplier_id = supplier_id =>
               /\ response.rows[i].qty_total =
                      SumField(incidents, OfSupplier(ids, supplier_id),
                               "qty_total_in_shipment")
               /\ response.rows[i].qty_damaged =
                      SumField(incidents, OfSupplier(ids, supplier_id), "qty_damaged")

\* the rows of a damage-rate answer are those of the suppliers that have an
\* incident among ids, one row each with the sums over these incidents
RowsPerSupplier(ids) ==
    /\ response.raised = ""
    /\ \A i \in DOMAIN response.rows :
           OfSupplier(ids, response.rows[i].supplier_id) # {}
    /\ \A supplier_id \in Range(SupplierIds) :
           OfSupplier(ids, supplier_id) # {} => SupplierRowSums(ids, supplier_id)

\* C14 as stated: damage_rate_per_supplier(product_type) returns one row per
\* supplier, with the sums over exactly that supplier's incidents; whenever a
\* product_type is given, only the incidents whose product_type equals it
\* contribute, the others being filtered out before the suppliers are bucketed.
C14_GivenTypeAlwaysFilters ==
    response.op = "damage_rate_per_supplier" /\ response.failure = None =>
        RowsPerSupplier(IF response.product_type = None THEN DOMAIN incidents
                        ELSE {id \in DOMAIN incidents :
                                 incidents[id].product_type = response.product_type[1]})

\* C14: while at most 50 suppliers have incidents (the size of the request's
\* supplier buckets), damage_rate_per_supplier(product_type) returns one row per
\* supplier, with the sums over exactly that supplier's incidents; when a
\* non-empty product_type is given,
\* only the incidents whose product_type equals it contribute and a supplier
\* without such an incident gets no row; an empty product_type filters nothing.
C14_NonEmptyTypeFilters ==
    response.op = "damage_rate_per_supplier" /\ response.failure = None =>
        \/ Cardinality({incidents[id].supplier_id : id \in DOMAIN incidents})
               > TermsSizeSuppliers
        \/ RowsPerSupplier(IF response.product_type \in {None, Some("")}
                           THEN DOMAIN incidents
                           ELSE {id \in DOMAIN incidents :
                                    incidents[id].product_type = response.product_type[1]})

\* the store holds a nail_polish and a tool incident of SUP-1 and a nail_polish
\* incident of SUP-2; asked for "tool", the report has the one row of SUP-1 with
\* the quantities of its tool incident alone
C14_Witness ==
    /\ response.op = "damage_rate_per_supplier"
    /\ response.failure = None
    /\ response.product_type = Some("tool")
    /\ \E a, b \in DOMAIN incidents :
           /\ incidents[a].supplier_id = "SUP-1" /\ incidents[a].product_type = "tool"
           /\ incidents[b].supplier_id = "SUP-2"
           /\ incidents[b].product_type = "nail_polish"
           /\ incidents[b].qty_total_in_shipment > 0
           /\ Len(response.rows) = 1
           /\ response.rows[1].supplier_id = "SUP-1"
           /\ response.rows[1].qty_total = incidents[a].qty_total_in_shipment

\* the incidents of a supplier reported in a calendar month
InMonth(supplier_id, month) ==
    {id \in DOMAIN incidents :
        /\ incidents[id].supplier_id = supplier_id
        /\ MonthOf(incidents[id].date_reported) = month}

\* C16: monthly_damage_rate_for_supplier(s) returns rows for the incidents of
\* supplier s only, one row for every calendar month in which s has an incident,
\* in strictly ascending chronological order, each row carrying the summed
\* qty_total and qty_damaged of s in that month.
C16_MonthlyRowsAscending ==
    response.op = "monthly_damage_rate_for_supplier" =>
        /\ response.raised = ""
        /\ \A id \in DOMAIN incidents :
               incidents[id].supplier_id = response.supplier_id =>
                   \E i \in DOMAIN response.rows :
                       MonthOf(response.rows[i].month) = MonthOf(incidents[id].date_reported)
        /\ \A i, j \in DOMAIN response.rows :
               i < j => MonthOf(response.rows[i].month) < MonthOf(response.rows[j].month)
        /\ \A i \in DOMAIN response.rows :
               LET ids == InMonth(response.supplier_id, MonthOf(response.rows[i].month))
               IN  /\ response.rows[i].qty_total =
                          SumField(incidents, ids, "qty_total_in_shipment")
                   /\ response.rows[i].qty_damaged = SumField(incidents, ids, "qty_damaged")
(***************************************************************************)
(* Reports: every query operation, on stores that hold damage-type tags,   *)
(* with a store that may fail to answer                                    *)
(***************************************************************************)
TermsSizeDamageTypes == 20

\* the damage-type tags, in ascending order: two of the dashboard's and as many
\* numbered ones as one supplier bucket lists tags
DamageTypes ==
    <<"bottles_broken", "leakage">>
    \o [i \in 1 .. TermsSizeDamageTypes |-> "t" \o Pad3(i)]

\* documents among ids whose multi-valued field holds key; a value repeated in
\* one document is one term of that document
WithTag(store, ids, field, key) == {id \in ids : key \in Range(store[id][field])}

\* {"terms": {"field": field, "size": size}} on a multi-valued field: a document
\* is counted in the bucket of each of its distinct values
TagBuckets(store, ids, field, order, size) ==
    LET tags == UNION {Range(store[id][field]) : id \in ids}
        keys == Take(OrderCounted(tags,
                                  Table([k \in tags |->
                                            Cardinality(WithTag(store, ids, field, k))]),
                                  Table([k \in tags |-> IndexOf(order, k)])),
                     size)
    IN  Table([i \in DOMAIN keys |-> <<keys[i], WithTag(store, ids, field, keys[i])>>])

damage_types_distribution_per_supplier_OneTagPerIncident(store) ==
    LET suppliers == TermsBuckets(store, DOMAIN store, "supplier_id", SupplierIds,
                                  TermsSizeSuppliers)
    IN  Return([i \in DOMAIN suppliers |->
            [supplier_id |-> suppliers[i][1],
             damage_types |->
                 LET types == TagBuckets(store,
                                  {id \in suppliers[i][2] : store[id].damage_type # <<>>},
                                  "damage_type", DamageTypes, TermsSizeDamageTypes)
                 IN  [j \in DOMAIN types |->
                         [damage_type |-> types[j][1],
                          count |-> Cardinality({id \in types[j][2] :
                                        store[id].damage_type[1] = types[j][1]})]]]])

damage_types_distribution_per_supplier(store) ==
    LET suppliers == TermsBuckets(store, DOMAIN store, "supplier_id", SupplierIds,
                                  TermsSizeSuppliers)
    IN  Return([i \in DOMAIN suppliers |->
            [supplier_id |-> suppliers[i][1],
             damage_types |->
                 LET types == TagBuckets(store, suppliers[i][2], "damage_type",
                                         DamageTypes, TermsSizeDamageTypes)
                 IN  [j \in DOMAIN types |->
                         [damage_type |-> types[j][1],
                          count |-> Cardinality(types[j][2])]]]])

fetch_product_CatchAll(store, sku, failure) ==
    IF failure # None \/ sku \notin DOMAIN store
    THEN [raised |-> "KeyError", result |-> None]
    ELSE [raised |-> "", result |-> Some([sku |-> sku, document |-> store[sku]])]

\* fetch_product(sku): client.get raises NotFoundError when the index holds no
\* document under sku, and only that error is turned into KeyError
fetch_product(store, sku, failure) ==
    IF failure # None THEN [raised |-> failure[1], result |-> None]
    ELSE IF sku \notin DOMAIN store THEN [raised |-> "KeyError", result |-> None]
    ELSE [raised |-> "", result |-> Some([sku |-> sku, document |-> store[sku]])]

\* a direct damage_types_distribution_per_supplier() call
DamageTypesDistributionPerSupplier(failure) ==
    /\ response' = [op |-> "damage_types_distribution_per_supplier",
                    failure |-> failure]
                   @@ client_search(failure,
                                    damage_types_distribution_per_supplier(incidents))
    /\ UNCHANGED <<incidents, products, extractVars, setupVars>>

\* GET /api/products/{sku}: KeyError becomes 404, any other exception is left
\* to the framework, which answers 500
GetProduct(sku, failure) ==
    /\ LET fetched == fetch_product(products, sku, failure)
       IN  response' = [op |-> "GET /api/products/{sku}", sku |-> sku,
                        failure |-> failure, raised |-> fetched.raised,
                        status |-> IF fetched.raised = "KeyError" THEN 404
                                   ELSE IF fetched.raised = "" THEN 200 ELSE 500,
                        body |-> fetched.result]
    /\ UNCHANGED <<incidents, products, extractVars, setupVars>>

\* the errors the client raises when the store cannot be reached
StoreFailures == {"ConnectionError", "ConnectionTimeout"}

Failures == {None} \cup {Some(error) : error \in StoreFailures}

\* the damage_type lists reported: none, one tag, two tags, one tag twice, and
\* one tag more than a supplier bucket lists
TagLists ==
    { <<>>, <<"leakage">>, <<"bottles_broken", "leakage">>, <<"leakage", "leakage">>,
      <<"leakage">> \o [i \in 1 .. TermsSizeDamageTypes |-> DamageTypes[2 + i]] }

\* SupplierIncident values with their damage_type lists
TaggedIncidents(id, shipments) ==
    {Incident(id, s, MaxQty, MaxQty) @@ [damage_type |-> tags] :
        s \in shipments, tags \in TagLists}

\* the incident stores the reports run on: what bulk_insert_incidents leaves of
\* up to two incidents
ReportStores ==
    {bulk_insert_incidents(EmptyDict, incidents_list) :
        incidents_list \in
            {<<>>} \cup {<<a>> : a \in TaggedIncidents("INC-1", Shipments)}
            \cup (TaggedIncidents("INC-1", Shipments)
                  \X TaggedIncidents("INC-2", {s \in Shipments : s[2] = "nail_polish"}))}

\* the catalogs the reports run on: empty, or one product that has a category
\* or has none
ReportCatalogs ==
    {catalog \in Catalogs :
        /\ DOMAIN catalog \subseteq {"SKU1"}
        /\ \A sku \in DOMAIN catalog :
               "price_final" \in DOMAIN catalog[sku] /\ catalog[sku]["name"] = <<"x">>}

ReportInit ==
    /\ ExtractIdle
    /\ incidents \in ReportStores
    /\ products \in ReportCatalogs
    /\ sku_daily_stats = EmptyDict
    /\ indices = IndexMappings
    /\ response = NoResponse

ReportNext ==
    \E failure \in Failures :
        \/ \E product_type \in {None, Some("")} \cup {Some(t) : t \in Range(ProductTypes)} :
               DamageRatePerSupplier(product_type, failure)
        \/ DamageRatePerSupplierAndType(failure)
        \/ DamageTypesDistributionPerSupplier(failure)
        \/ \E supplier_id \in Range(SupplierIds) :
               MonthlyDamageRateForSupplier(supplier_id, failure)
        \/ \E attribute_field \in QueryAttributes :
               AttributeCoverageByCategory(attribute_field, failure)
        \/ \E attribute_field \in QueryAttributes, category \in QueryCategories :
               MissingAttributeFixList(attribute_field, category, MaxSize, failure)
        \/ \E category \in QueryCategories :
               AttributeImportanceByRevenue("attr_finish", category, failure)
        \/ \E sku \in {"SKU1", "SKU2"} : GetProduct(sku, failure)

SpecReports == ReportInit /\ [][ReportNext]_vars
(***************************************************************************)
(* Properties of the reports                                               *)
(***************************************************************************)
\* the incidents of a supplier that carry a tag
Carrying(supplier_id, tag) ==
    {id \in OfSupplier(DOMAIN incidents, supplier_id) :
        tag \in Range(incidents[id].damage_type)}

\* the distinct tags over the incidents of a supplier
TagsOf(supplier_id) ==
    UNION {Range(incidents[id].damage_type) :
              id \in OfSupplier(DOMAIN incidents, supplier_id)}

\* the number of <<incident, tag>> pairs of a supplier, a tag counted once in
\* each incident that carries it
TagTotal(supplier_id) ==
    Cardinality({pair \in (DOMAIN incidents) \X TagsOf(supplier_id) :
                    pair[1] \in Carrying(supplier_id, pair[2])})

RECURSIVE SumCounts(_)
SumCounts(damage_types) ==
    IF damage_types = <<>> THEN 0
    ELSE Head(damage_types).count + SumCounts(Tail(damage_types))

\* every (tag, count) a row lists is a tag of the row's supplier with the number
\* of the supplier's incidents carrying it, and no tag is listed twice
ListedCountsRight(row) ==
    /\ \A j \in DOMAIN row.damage_types :
           /\ row.damage_types[j].damage_type \in TagsOf(row.supplier_id)
           /\ row.damage_types[j].count =
                  Cardinality(Carrying(row.supplier_id, row.damage_types[j].damage_type))
    /\ \A j, k \in DOMAIN row.damage_types :
           row.damage_types[j].damage_type = row.damage_types[k].damage_type => j = k

\* the suppliers with incidents have one row each
OneRowPerSupplier ==
    /\ \A i, j \in DOMAIN response.rows :
           response.rows[i].supplier_id = response.rows[j].supplier_id => i = j
    /\ {response.rows[i].supplier_id : i \in DOMAIN response.rows}
           = {incidents[id].supplier_id : id \in DOMAIN incidents}

\* C15 as stated: damage_types_distribution_per_supplier lists, for every
\* supplier, every tag of its incidents with the number of incidents carrying
\* it, so that the counts of a supplier sum to the number of tags over its
\* incidents.
C15_CountsSumToAllTags ==
    response.op = "damage_types_distribution_per_supplier" /\ response.failure = None =>
        /\ response.raised = ""
        /\ OneRowPerSupplier
        /\ \A i \in DOMAIN response.rows :
               /\ ListedCountsRight(response.rows[i])
               /\ SumCounts(response.rows[i].damage_types)
                      = TagTotal(response.rows[i].supplier_id)

\* C15: damage_types_distribution_per_supplier lists, for every supplier (of up
\* to 50), the 20 tags carried by most of its incidents (tags of equal count in
\* ascending order of name), each with the number of the supplier's incidents
\* that carry it, a tag repeated within an incident counting once; for a
\* supplier with at most 20 distinct tags the counts sum to the number of tags
\* over its incidents.
C15_CountsOfListedTags ==
    response.op = "damage_types_distribution_per_supplier" /\ response.failure = None =>
        /\ response.raised = ""
        /\ \/ Cardinality({incidents[id].supplier_id : id \in DOMAIN incidents})
                  > TermsSizeSuppliers
           \/ OneRowPerSupplier
        /\ \A i \in DOMAIN response.rows :
               LET row == response.rows[i]
                   listed == {row.damage_types[j].damage_type : j \in DOMAIN row.damage_types}
                   tags == TagsOf(row.supplier_id)
               IN  /\ ListedCountsRight(row)
                   /\ Len(row.damage_types) =
                          IF Cardinality(tags) < TermsSizeDamageTypes
                          THEN Cardinality(tags) ELSE TermsSizeDamageTypes
                   /\ \A u \in tags \ listed, l \in listed :
                          \/ Cardinality(Carrying(row.supplier_id, u))
                                 < Cardinality(Carrying(row.supplier_id, l))
                          \/ /\ Cardinality(Carrying(row.supplier_id, u))
                                    = Cardinality(Carrying(row.supplier_id, l))
                             /\ IndexOf(DamageTypes, l) < IndexOf(DamageTypes, u)
                   /\ Cardinality(tags) <= TermsSizeDamageTypes =>
                          SumCounts(row.damage_types) = TagTotal(row.supplier_id)

\* SUP-1 has an incident tagged bottles_broken and leakage and one tagged leakage
\* twice; its row lists leakage with 2 and bottles_broken with 1
C15_Witness ==
    /\ response.op = "damage_types_distribution_per_supplier"
    /\ response.failure = None
    /\ \E a, b \in DOMAIN incidents :
           /\ incidents[a].supplier_id = "SUP-1" /\ incidents[b].supplier_id = "SUP-1"
           /\ incidents[a].damage_type = <<"bottles_broken", "leakage">>
           /\ incidents[b].damage_type = <<"leakage", "leakage">>
    /\ response.rows =
           << [supplier_id |-> "SUP-1",
               damage_types |-> << [damage_type |-> "leakage", count |-> 2],
                                   [damage_type |-> "bottles_broken", count |-> 1] >>] >>

AggregationOps ==
    {"damage_rate_per_supplier", "damage_rate_per_supplier_and_type",
     "damage_types_distribution_per_supplier", "monthly_damage_rate_for_supplier",
     "attribute_coverage_by_category", "missing_attribute_fix_list"}

\* the store holds no record that matches the query of the operation answered
NoMatchingRecords ==
    CASE response.op = "damage_rate_per_supplier" ->
             IF response.product_type \in {None, Some("")} THEN incidents = EmptyDict
             ELSE \A id \in DOMAIN incidents :
                      incidents[id].product_type # response.product_type[1]
      [] response.op \in {"damage_rate_per_supplier_and_type",
                          "damage_types_distribution_per_supplier"} ->
             incidents = EmptyDict
      [] response.op = "monthly_damage_rate_for_supplier" ->
             OfSupplier(DOMAIN incidents, response.supplier_id) = {}
      [] response.op = "attribute_coverage_by_category" ->
             \A sku \in DOMAIN products : "category_main" \notin DOMAIN products[sku]
      [] response.op = "missing_attribute_fix_list" ->
             \A sku \in InCategory(response.category_main_filter) :
                 response.attribute_field \in DOMAIN products[sku]
      [] OTHER -> FALSE

\* C17: when the store answers and holds no record matching the query, each of
\* the six aggregation operations returns an empty list and raises nothing.
C17_NoMatchesGiveEmptyList ==
    /\ response.op \in AggregationOps
    /\ response.failure = None
    /\ NoMatchingRecords
    => response.raised = "" /\ response.rows = <<>>

\* the store holds incidents of SUP-1 only and the monthly series of SUP-2 was
\* asked for: the answer is the empty list
C17_Witness ==
    /\ response.op = "monthly_damage_rate_for_supplier"
    /\ response.failure = None
    /\ response.supplier_id = "SUP-2"
    /\ incidents # EmptyDict
    /\ \A id \in DOMAIN incidents : incidents[id].supplier_id = "SUP-1"
    /\ response.raised = ""
    /\ response.rows = <<>>

\* C18: when the request to the store fails, each aggregation operation and
\* fetch_product raises that error to its caller; none answers with a list, a
\* document or the missing-product condition.
C18_StoreFailurePropagates ==
    /\ response.op \in AggregationOps \cup {"GET /api/products/{sku}"}
    /\ response.failure # None
    => /\ response.raised = response.failure[1]
       /\ response.op \in AggregationOps => response.rows = <<>>
       /\ response.op = "GET /api/products/{sku}" =>
              response.body = None /\ response.status = 500

\* the store holds incidents and cannot be reached when damage_rate_per_supplier
\* asks: the caller gets ConnectionError
C18_Witness ==
    /\ response.op = "damage_rate_per_supplier"
    /\ response.failure = Some("ConnectionError")
    /\ incidents # EmptyDict
    /\ response.raised = "ConnectionError"

\* C19: fetch_product(sku) raises KeyError, answered with HTTP 404, when the
\* store answers and holds no product under sku; a request the store fails to
\* answer raises that failure and is never turned into KeyError or 404; for a
\* SKU the store holds, the stored document is returned under its sku.
C19_MissingIsKeyErrorOnly ==
    response.op = "GET /api/products/{sku}" =>
        /\ response.failure = None /\ response.sku \notin DOMAIN products =>
               response.raised = "KeyError" /\ response.status = 404
        /\ response.failure # None =>
               response.raised \in StoreFailures /\ response.status # 404
        /\ response.failure = None /\ response.sku \in DOMAIN products =>
               /\ response.raised = ""
               /\ response.status = 200
               /\ response.body =
                      Some([sku |-> response.sku, document |-> products[response.sku]])

\* the catalog holds SKU1 and SKU2 is asked for: KeyError, answered with 404
C19_Witness ==
    /\ response.op = "GET /api/products/{sku}"
    /\ response.failure = None
    /\ response.sku = "SKU2"
    /\ DOMAIN products = {"SKU1"}
    /\ response.raised = "KeyError"
    /\ response.status = 404
(***************************************************************************)
(* Properties of re-ingest                                                 *)
(***************************************************************************)
\* the keys extract_attributes can derive
DerivedKeys == PatternKeys \cup {KeywordCategories[i].key : i \in DOMAIN KeywordCategories}

\* C20: after a product is ingested, by upsert_product or by
\* bulk_index_products, the stored document holds no derived-attribute key that
\* the attributes of this ingest lack: a key an earlier ingest derived from text
\* that no longer matches is gone.
C20_ReingestSupersedesAttributes ==
    /\ response.op = "upsert_product" =>
           DerivedKeys \cap DOMAIN products[response.sku] \subseteq DOMAIN response.attributes
    /\ response.op = "bulk_index_products" =>
           \A sku \in DOMAIN response.sent :
               DerivedKeys \cap DOMAIN products[sku] \subseteq DOMAIN response.sent[sku]
(***************************************************************************)
(* Properties of stored incidents                                          *)
(***************************************************************************)
\* C21: an incident document, once stored, is never modified or replaced: every
\* step of create_incident, insert_incident, bulk_insert_incidents and the
\* dashboard form leaves each document the store already holds as it was, also
\* when the step writes under an incident_id that exists.
C21_StoredIncidentsImmutable ==
    [][\A id \in DOMAIN incidents :
           id \in DOMAIN incidents' /\ incidents'[id] = incidents[id]]_vars
(***************************************************************************)
(* API incident runs: create_incident on payloads that carry damage types  *)
(***************************************************************************)
\* damage_type of a payload: no tag, one tag, two tags, or a single string
PayloadDamageTypes ==
    { [kind |-> "list", value |-> <<>>],
      [kind |-> "list", value |-> <<"leakage">>],
      [kind |-> "list", value |-> <<"bottles_broken", "leakage">>],
      [kind |-> "str", string |-> "leakage"] }

\* payloads without an identifier, with an empty one, and with one of two
\* identifiers of the caller's; the last quantity exceeds the shipment
TaggedPayloads ==
    {Incident(id, <<"SUP-1", "nail_polish", <<2025, 1, 10>> >>, MaxQty, damaged)
        @@ [damage_type |-> damage_type] :
        id \in {None, Some(""), Some("INC-1"), Some("INC-7")},
        damaged \in {0, MaxQty + 1}, damage_type \in PayloadDamageTypes}

CreateNext ==
    \E payload \in TaggedPayloads :
        \E uuid \in IF payload.incident_id \in {None, Some("")} THEN Uuid4(incidents)
                    ELSE {"unused"} :
            \/ ApiCreateIncident(payload, uuid)
            \/ CreateIncident(payload, uuid)

CreateInit == ExtractIdle /\ StoresEmpty

SpecCreate == CreateInit /\ [][CreateNext]_vars
(***************************************************************************)
(* Properties of create_incident                                           *)
(***************************************************************************)
CreateOps == {"POST /api/incidents", "create_incident"}

SingleStringStoredAsList ==
    response.op = "create_incident" /\ response.raised = ""
        /\ response.damage_type.kind = "str" =>
        incidents[response.incident_id[1]].damage_type = <<response.damage_type.string>>

\* C23: every incident stored through create_incident has a non-empty list of
\* damage-type tags, and a payload whose damage_type is the single string s is
\* stored with the list of s alone.
C23_DamageTypeNonEmptyList ==
    /\ \A id \in DOMAIN incidents : incidents[id].damage_type # <<>>
    /\ SingleStringStoredAsList
(***************************************************************************)
(* Properties of the read operations                                       *)
(***************************************************************************)
ReadOps == AggregationOps \cup {"attribute_importance_by_revenue"}

C25_RerunCreatesNothing ==
    [][response.op = "bulk_index_products" /\ response.raised = ""
           /\ response'.op = "bulk_index_products" /\ response'.rows = response.rows =>
           /\ response'.raised = ""
           /\ response'.stats.created = 0
           /\ products' = products
           /\ \A sku \in DOMAIN response'.sent :
                  {id \in DOMAIN products' : products'[id]["sku"] = sku} = {sku}]_vars

\* a run on an export of two rows of one product that was stored already, as
\* after a run before it: both rows were merged, nothing was created
C25_Witness ==
    /\ response.op = "bulk_index_products"
    /\ response.raised = ""
    /\ Len(response.rows) = 2
    /\ response.rows[1].sku = "SKU123" /\ response.rows[2].sku = "SKU123"
    /\ response.rows[1].name # response.rows[2].name
    /\ response.stats.created = 0
    /\ response.stats.updated + response.stats.noop = 2
    /\ DOMAIN products = {"SKU123"}
(***************************************************************************)
(* Index setup runs                                                        *)
(***************************************************************************)
\* the indices that exist when a setup run starts: any of the three, each with
\* the mapping es_setup gives it
SetupIndices ==
    {[index_name \in present |-> IndexMappings[index_name]] :
        present \in SUBSET DOMAIN IndexMappings}

SetupInit ==
    /\ ExtractIdle
    /\ incidents = EmptyDict
    /\ products = EmptyDict
    /\ sku_daily_stats = EmptyDict
    /\ indices \in SetupIndices
    /\ response = NoResponse

SetupNext ==
    \E failure \in Failures :
        \/ \E index_name \in DOMAIN IndexMappings : CreateIndex(index_name, failure)
        \/ CreateAllIndices(failure)

SpecSetup == SetupInit /\ [][SetupNext]_vars

\* how often a run called indices.create for an index
CreateCalls(calls, index_name) ==
    Cardinality({i \in DOMAIN calls : calls[i] = <<"create", index_name>>})

\* C26: create_index calls indices.create not at all for an index that exists
\* and exactly once for one that is missing; create_all_indices, on whatever
\* indices exist, a run of it before included, raises nothing and leaves the
\* three indices existing.
C26_SetupIdempotent ==
    /\ response.op = "create_index" /\ response.failure = None =>
           /\ response.raised = ""
           /\ CreateCalls(response.calls, response.index_name)
                  = IF response.index_name \in response.existing THEN 0 ELSE 1
           /\ response.index_name \in DOMAIN indices
    /\ response.op = "create_all_indices" /\ response.failure = None =>
           /\ response.raised = ""
           /\ DOMAIN indices = DOMAIN IndexMappings
           /\ \A index_name \in DOMAIN IndexMappings :
                  CreateCalls(response.calls, index_name)
                      = IF index_name \in response.existing THEN 0 ELSE 1

\* create_all_indices ran on a store that held the three indices already: it
\* created none and updated the mapping of each
C26_Witness ==
    /\ response.op = "create_all_indices"
    /\ response.failure = None
    /\ response.existing = DOMAIN IndexMappings
    /\ response.raised = ""
    /\ Len(response.calls) = 9
    /\ \A index_name \in DOMAIN IndexMappings :
           \E i \in DOMAIN response.calls : response.calls[i] = <<"put_mapping", index_name>>

\* create_index ran for a missing index while another existed
C26_WitnessCreated ==
    /\ response.op = "create_index"
    /\ response.failure = None
    /\ response.index_name \notin response.existing
    /\ response.existing # {}
    /\ response.calls = << <<"exists", response.index_name>>,
                           <<"exists", response.index_name>>,
                           <<"create", response.index_name>> >>
(***************************************************************************)
(* api/main.py: the routes and the dispatch of a request                   *)
(***************************************************************************)
\* the routes in the order the decorators register them; a path is the list of
\* its segments and a segment in braces is a path parameter
Routes ==
    << [method |-> "GET", path |-> <<"healthz">>, endpoint |-> "healthcheck"],
       [method |-> "POST", path |-> <<"api", "products">>, endpoint |-> "ingest_product"],
       [method |-> "GET", path |-> <<"api", "products", "{sku}">>,
        endpoint |-> "get_product"],
       [method |-> "GET", path |-> <<"api", "products", "missing-attributes">>,
        endpoint |-> "get_missing_attributes"],
       [method |-> "POST", path |-> <<"api", "incidents">>, endpoint |-> "create_incident"],
       [method |-> "GET", path |-> <<"api", "incidents">>, endpoint |-> "list_incidents"],
       [method |-> "GET", path |-> <<"api", "incidents", "kpis">>,
        endpoint |-> "get_supplier_kpis"],
       [method |-> "GET", path |-> <<"api", "incidents", "kpis", "by-type">>,
        endpoint |-> "get_supplier_kpis_by_type"],
       [method |-> "GET", path |-> <<"api", "incidents", "kpis", "{supplier_id}", "monthly">>,
        endpoint |-> "get_supplier_monthly_kpis"],
       [method |-> "GET", path |-> <<"api", "incidents", "summary", "damage-types">>,
        endpoint |-> "get_damage_distribution"],
       [method |-> "GET", path |-> <<"api", "stats", "daily", "{sku}">>,
        endpoint |-> "get_daily_stats"] >>

PathParameters == {"{sku}", "{supplier_id}"}

\* the path of a route matches a request path: a parameter takes any segment
PathMatches(route_path, path) ==
    /\ Len(route_path) = Len(path)
    /\ \A i \in DOMAIN path : route_path[i] \in PathParameters \/ route_path[i] = path[i]

\* the router goes through the routes in order and hands the request to the
\* first whose path and method match; a path that only routes of other methods
\* match is answered 405, a path no route matches 404
Dispatch(method, path) ==
    LET partial == {i \in DOMAIN Routes : PathMatches(Routes[i].path, path)}
        full == {i \in partial : Routes[i].method = method}
    IN  IF full # {} THEN Routes[SetMin(full)].endpoint
        ELSE IF partial # {} THEN "405" ELSE "404"

\* Query(..., min_length=3), Query(..., min_length=2), Query(50, ge=1, le=500)
ValidQuery(query) ==
    /\ Len(query.attribute) >= 3
    /\ Len(query.category_main) >= 2
    /\ query.size >= 1 /\ query.size <= 500

\* services.list_missing_attributes
list_missing_attributes(store, attribute, category_main, size) ==
    LET found == missing_attribute_fix_list(store, attribute, category_main, size)
    IN  [raised |-> found.raised,
         result |-> Some([attribute |-> attribute, category_main |-> category_main,
                          size |-> size, items |-> found.rows])]

\* what the endpoint a GET request is handed to answers: get_product reads the
\* SKU from the path, get_missing_attributes its query parameters, which the
\* framework refuses with 422 when they are invalid
Answer(endpoint, path, query, failure) ==
    CASE endpoint = "healthcheck" -> [status |-> 200, raised |-> "", body |-> None]
      [] endpoint = "get_product" ->
             LET fetched == fetch_product(products, path[3], failure)
             IN  [status |-> IF fetched.raised = "KeyError" THEN 404
                             ELSE IF fetched.raised = "" THEN 200 ELSE 500,
                  raised |-> fetched.raised, body |-> fetched.result]
      [] endpoint = "get_missing_attributes" ->
             IF ~ValidQuery(query)
             THEN [status |-> 422, raised |-> "RequestValidationError", body |-> None]
             ELSE LET listed == client_search(failure,
                                     list_missing_attributes(products, query.attribute,
                                                             query.category_main, query.size))
                  IN  [status |-> IF listed.raised = "" THEN 200 ELSE 500,
                       raised |-> listed.raised,
                       body |-> IF listed.raised = "" THEN listed.result ELSE None]
      [] endpoint = "405" -> [status |-> 405, raised |-> "", body |-> None]
      [] OTHER -> [status |-> 404, raised |-> "", body |-> None]

\* a GET request to the API
HttpGet(path, query, failure) ==
    /\ response' = [op |-> "GET", path |-> path, query |-> query, failure |-> failure,
                    endpoint |-> Dispatch("GET", path)]
                   @@ Answer(Dispatch("GET", path), path, query, failure)
    /\ UNCHANGED <<incidents, products, extractVars, setupVars>>

(***************************************************************************)
(* Request runs                                                            *)
(***************************************************************************)
\* request paths: of a stored and of an unknown product, of the fix list, of
\* the health probe, one that only a POST route has and one that no route has
RequestPaths ==
    { <<"healthz">>, <<"api", "products">>, <<"api", "products", "SKU1">>,
      <<"api", "products", "SKU2">>, <<"api", "products", "missing-attributes">>,
      <<"api", "products", "SKU1", "reviews">> }

Queries ==
    { [attribute |-> "attr_finish", category_main |-> "Gel Polish", size |-> MaxSize],
      [attribute |-> "attr_volume_ml", category_main |-> "Accessories", size |-> 1],
      [attribute |-> "at", category_main |-> "Gel Polish", size |-> 1] }

RouteInit ==
    /\ ExtractIdle
    /\ incidents = EmptyDict
    /\ products \in ReportCatalogs
    /\ sku_daily_stats = EmptyDict
    /\ indices = IndexMappings
    /\ response = NoResponse

RouteNext ==
    \E path \in RequestPaths, query \in Queries, failure \in Failures :
        HttpGet(path, query, failure)

SpecRoutes == RouteInit /\ [][RouteNext]_vars

\* C27: a GET request to /api/products/missing-attributes whose attribute and
\* category_main parameters are valid is handed to get_missing_attributes, not
\* to the handler of /api/products/{sku}.
C27_FixListRouteReached ==
    response.op = "GET" /\ response.path = <<"api", "products", "missing-attributes">>
        /\ ValidQuery(response.query) =>
        response.endpoint = "get_missing_attributes"
(***************************************************************************)
(* Upsert runs with overrides of any key                                   *)
(***************************************************************************)
\* payload["attributes"] is Dict[str, Any]: overrides under attr_* keys, under
\* the key "sku" and under the key "attributes"
AnyOverrides ==
    { EmptyDict,
      "attr_volume_ml" :> Some(250),
      "sku" :> Some("SKU200"),
      "attributes" :> Some("attr_volume_ml" :> 250) }

OverridePayloads ==
    {("sku" :> Some(sku)) @@ ("name" :> Some(text[1])) @@ ("description_html" :> text[2])
        @@ ("description_short" :> text[3]) @@ ("attributes" :> Some(overrides)) :
        sku \in Skus, text \in ProductTexts, overrides \in AnyOverrides}

UpsertNext ==
    \E payload \in OverridePayloads, now \in Timestamps : UpsertProduct(payload, now)

UpsertInit == ExtractIdle /\ StoresEmpty

SpecUpsert == UpsertInit /\ [][UpsertNext]_vars

\* C28: every stored product document has, as its sku field, the id it is
\* stored under, and has no key "attributes".
C28_SkuIsDocumentId ==
    \A id \in DOMAIN products :
        products[id]["sku"] = id /\ "attributes" \notin DOMAIN products[id]

(***************************************************************************)
(* ingest_orders.py and ingest_returns.py                                  *)
(***************************************************************************)
\* the days and the SKUs of the exports, in ascending order
StatDates == <<"2025-01-10", "2025-01-11">>

StatSkus == <<"SKU1", "SKU2">>

\* the lines load_orders and load_returns keep: dropna(subset=[date, "sku"])
Kept(lines, date_column) ==
    {i \in DOMAIN lines : lines[i][date_column] # None /\ lines[i].sku # None}

RECURSIVE SumLines(_, _, _)
\* .agg(sum) of a column over the lines `rows`
SumLines(lines, rows, column) ==
    IF rows = {} THEN 0
    ELSE LET i == CHOOSE x \in rows : TRUE
         IN  lines[i][column] + SumLines(lines, rows \ {i}, column)

\* groupby(["sku", date_column]).sort_values([date_column, "sku"]): the groups
\* as <<date, sku, lines of the group>>, by date and then by sku
Grouped(lines, date_column) ==
    LET group(d, s) == {i \in Kept(lines, date_column) :
                            lines[i][date_column] = Some(d) /\ lines[i].sku = Some(s)}
        slots == [n \in 1 .. Len(StatDates) * Len(StatSkus) |->
                     <<StatDates[((n - 1) \div Len(StatSkus)) + 1],
                       StatSkus[((n - 1) % Len(StatSkus)) + 1]>>]
    IN  SelectSeq([n \in DOMAIN slots |-> <<slots[n][1], slots[n][2],
                                            group(slots[n][1], slots[n][2])>>],
                  LAMBDA g : g[3] # {})

\* f"{sku}_{date_value}"
StatId(sku, date_value) == <<sku, "_", date_value>>

\* ingest_orders._build_actions: one update action per group
_build_actions(lines) ==
    LET groups == Grouped(lines, "order_date")
    IN  [n \in DOMAIN groups |->
            [id |-> StatId(groups[n][2], groups[n][1]),
             doc |-> ("sku" :> groups[n][2]) @@ ("date" :> groups[n][1])
                     @@ ("purchases" :> SumLines(lines, groups[n][3], "quantity"))
                     @@ ("revenue" :> SumLines(lines, groups[n][3], "line_total"))]]

\* ingest_returns._actions: one update action per group
_actions(lines) ==
    LET groups == Grouped(lines, "return_date")
    IN  [n \in DOMAIN groups |->
            [id |-> StatId(groups[n][2], groups[n][1]),
             doc |-> ("sku" :> groups[n][2]) @@ ("date" :> groups[n][1])
                     @@ ("returns" :> SumLines(lines, groups[n][3], "quantity"))]]

RECURSIVE StreamingUpdates(_, _, _)
\* helpers.streaming_bulk over update actions with doc_as_upsert, in order;
\* stats counts their results
StreamingUpdates(done, actions, i) ==
    IF i > Len(actions) THEN done
    ELSE LET step == UpdateAction(done.store, actions[i].id, actions[i].doc)
         IN  StreamingUpdates([store |-> step.store,
                               stats |-> [done.stats EXCEPT ![step.result] = @ + 1]],
                              actions, i + 1)

\* the second half of ingest_orders and of ingest_returns: nothing is sent
\* when the export has no group
SendStats(store, actions) ==
    StreamingUpdates([store |-> store,
                      stats |-> [created |-> 0, updated |-> 0, noop |-> 0]],
                     actions, 1)

ingest_orders(store, lines) == SendStats(store, _build_actions(lines))

ingest_returns(store, lines) == SendStats(store, _actions(lines))

\* an ingest_orders run; the response keeps the actions it sent
IngestOrders(lines) ==
    /\ \E actions \in {_build_actions(lines)} :
           /\ sku_daily_stats' = SendStats(sku_daily_stats, actions).store
           /\ response' = [op |-> "ingest_orders", sent |-> actions,
                           stats |-> SendStats(sku_daily_stats, actions).stats]
    /\ UNCHANGED <<incidents, products, indices, extractVars>>

\* an ingest_returns run
IngestReturns(lines) ==
    /\ \E actions \in {_actions(lines)} :
           /\ sku_daily_stats' = SendStats(sku_daily_stats, actions).store
           /\ response' = [op |-> "ingest_returns", sent |-> actions,
                           stats |-> SendStats(sku_daily_stats, actions).stats]
    /\ UNCHANGED <<incidents, products, indices, extractVars>>

(***************************************************************************)
(* Daily-stat runs                                                         *)
(***************************************************************************)
MaxLines == 2

\* order lines: of two SKUs on one day, and a line without SKU
OrderLines ==
    {[order_date |-> Some(StatDates[1]), sku |-> Some("SKU1"), quantity |-> 1,
      line_total |-> 10],
     [order_date |-> Some(StatDates[1]), sku |-> Some("SKU2"), quantity |-> 2,
      line_total |-> 5],
     [order_date |-> Some(StatDates[1]), sku |-> None, quantity |-> 1,
      line_total |-> 5]}

\* return lines: of the first SKU on two days, and a line without date
ReturnLines ==
    {[return_date |-> Some(d), sku |-> Some("SKU1"), quantity |-> 1] :
        d \in Range(StatDates)}
    \cup {[return_date |-> None, sku |-> Some("SKU1"), quantity |-> 1]}

OrderExports == UNION {[1 .. n -> OrderLines] : n \in 0 .. MaxLines}

ReturnExports == UNION {[1 .. n -> ReturnLines] : n \in 0 .. MaxLines}

DailyNext ==
    \/ \E lines \in OrderExports : IngestOrders(lines)
    \/ \E lines \in ReturnExports : IngestReturns(lines)

DailyInit == ExtractIdle /\ StoresEmpty

SpecDaily == DailyInit /\ [][DailyNext]_vars

\* the actions the order exports and the return exports lead to
OrderActionLists == {_build_actions(lines) : lines \in OrderExports}

ReturnActionLists == {_actions(lines) : lines \in ReturnExports}

\* C29: on any store of daily stats, an orders run followed by a returns run
\* ends on the documents that the returns run followed by the orders run ends
\* on; these hold the purchases and the revenue of the orders export and the
\* returns of the returns export; and an orders run leaves the returns stored,
\* a returns run the purchases and revenue stored, as they are.
C29_OrdersAndReturnsCommute ==
    \A o \in OrderActionLists, r \in ReturnActionLists :
        LET after_o == SendStats(sku_daily_stats, o).store
            after_r == SendStats(sku_daily_stats, r).store
            both == SendStats(after_o, r).store
        IN  /\ both = SendStats(after_r, o).store
            /\ \A i \in DOMAIN o :
                   /\ o[i].id \in DOMAIN both
                   /\ Get(both[o[i].id], "purchases") = Some(o[i].doc["purchases"])
                   /\ Get(both[o[i].id], "revenue") = Some(o[i].doc["revenue"])
            /\ \A i \in DOMAIN r :
                   /\ r[i].id \in DOMAIN both
                   /\ Get(both[r[i].id], "returns") = Some(r[i].doc["returns"])
            /\ \A id \in DOMAIN sku_daily_stats :
                   /\ id \in DOMAIN after_o /\ id \in DOMAIN after_r
                   /\ Get(after_o[id], "returns") = Get(sku_daily_stats[id], "returns")
                   /\ Get(after_r[id], "purchases") = Get(sku_daily_stats[id], "purchases")
                   /\ Get(after_r[id], "revenue") = Get(sku_daily_stats[id], "revenue")

\* an orders run has updated a document that a returns run had written: it
\* holds the purchases and the revenue next to the returns
C29_Witness ==
    /\ response.op = "ingest_orders"
    /\ response.stats.updated >= 1
    /\ \E i \in DOMAIN response.sent :
           /\ response.sent[i].id \in DOMAIN sku_daily_stats
           /\ {"purchases", "revenue", "returns"}
                  \subseteq DOMAIN sku_daily_stats[response.sent[i].id]
           /\ sku_daily_stats[response.sent[i].id]["purchases"]
                  = response.sent[i].doc["purchases"]
(***************************************************************************)
(* Extraction runs on the keywords themselves                              *)
(***************************************************************************)
\* the keyword lists by the attribute each fills
KeywordLists ==
    [attr_finish |-> FINISH_KEYWORDS, attr_curing_type |-> CURING_KEYWORDS,
     attr_liquid_type |-> LIQUID_TYPES, attr_scent |-> SCENT_KEYWORDS,
     attr_material |-> MATERIAL_KEYWORDS, attr_shape |-> SHAPE_KEYWORDS,
     attr_color_name |-> COLOR_KEYWORDS]

Keywords == UNION {Range(KeywordLists[field]) : field \in DOMAIN KeywordLists}

\* names that are a keyword, alone or between two other words
KeywordInputs ==
    /\ name \in Keywords \cup {<<"x", " ">> \o k \o <<" ", "x">> : k \in Keywords}
    /\ description = None
    /\ attributes = EmptyDict
    /\ pc = "input"

KeywordInit == KeywordInputs /\ StoresEmpty

SpecKeywords == KeywordInit /\ [][ExtractNext]_vars

\* the value stored for a keyword: a curing keyword loses its blanks and is
\* upper-cased
StoredKeyword(field, k) ==
    IF field = "attr_curing_type" THEN Upper(RemoveSpaces(k)) ELSE k

\* C30: every keyword of the seven keyword lists is the value of its attribute
\* for some text; a text that has a keyword as value holds no keyword listed
\* before it, so the keyword itself is such a text: extract_attributes of a
\* name that is the keyword k returns k for the attribute of its list.
C30_EveryKeywordReachable ==
    pc = "extracted" =>
        \A field \in DOMAIN KeywordLists :
            name \in Range(KeywordLists[field]) =>
                Get(attributes, field) = Some(StoredKeyword(field, name))

\* the keywords that are the value of their attribute for no text: an earlier
\* keyword of the list is part of them
Shadowed(field) ==
    {k \in Range(KeywordLists[field]) : _first_keyword(k, KeywordLists[field]) # Some(k)}
====
